---- MODULE Spec2Model ----
(***************************************************************************)
(* Saturn-Sync: a model of src/CBD_Api.py (class Printer, the datagram     *)
(* client of the printer) and of src/saturn_sync_full.py (class SyncAgent, *)
(* the synchronization engine, with its scheduler thread, its upload       *)
(* worker threads, the folder watcher and the progress poller of SyncUI). *)
(*                                                                         *)
(* The specifications of the module:                                       *)
(*   SpecUpload  one call of Printer.uploadFile, statement by statement,   *)
(*               against every sequence of device replies;                 *)
(*   Spec        the engine (SyncAgent.run and the threads around it)      *)
(*               with files written into the folder and exchanges that     *)
(*               fail;                                                     *)
(*   SpecPrint   the engine with a device that starts and ends print jobs; *)
(*   SpecRemove  the engine started on a folder that holds one file, which *)
(*               is removed, with the remote delete switched on;           *)
(*   SpecPending the engine started on a folder that holds two files,      *)
(*               before the window is set up;                              *)
(*   SpecPurge   the engine started on a folder that holds one file,       *)
(*               which is removed;                                         *)
(*   SpecWatch   the engine with a watcher that also reports directories   *)
(*               and files of other extensions;                            *)
(*   SpecFolder  the engine with a user who changes the sync folder;       *)
(*   SpecTransfer one call of uploadFile that is not held up, against a    *)
(*               device that answers every chunk, of a file that may be    *)
(*               truncated meanwhile;                                      *)
(*   SpecFn      a chunk datagram, is_file_modified and scan_local_files   *)
(*               applied to arguments of bounded sets;                     *)
(*   SpecApi     one call of a query of Printer (send, printingStatus,     *)
(*               getCardFiles) against every short sequence of datagrams;  *)
(*   SpecFacade  one call of printingStatus, printingPercent or            *)
(*               removeCardFile against every short sequence of datagrams. *)
(* The engine specifications share every action of the program and differ  *)
(* in what the environment does.  SpecUpload, SpecApi and the engine       *)
(* specifications leave each other's variables unchanged.                  *)
(***************************************************************************)
EXTENDS Integers, Sequences, FiniteSets, TLC

(***************************************************************************)
(* Bounds of the model.                                                    *)
(***************************************************************************)
\* resend replies the device sends during one transfer
MaxRetr == 2
\* receives of one query the model follows
MaxInbox == 5
\* upload worker threads alive at the same time
MaxWorkers == 2
\* device exchanges and filesystem calls that fail in a run
MaxFaults == 1
\* print jobs the device starts in a run
MaxPrints == 1
\* writes a file of the sync folder receives in a run (its modification
\* time counts them)
MaxMtime == 2
\* events the watcher delivers for directories and for files of other
\* extensions in a run
MaxNoise == 2

(***************************************************************************)
(* Program constants.                                                      *)
(***************************************************************************)
\* readamt = 1280, the chunk length of uploadFile
ChunkSize == 1280
\* the last byte of a chunk datagram, 0x83 (line 249)
Trailer == 131

\* sizes of the local file handed to uploadFile
FileSizes == {0, 1, 1280, 3000, 10000}

\* offsets the device names in "resend <n>,offset error:<k>"
ResendOffsets == {0, 1280, 2560, 4096}

NoPacket == [cmd |-> "", off |-> 0, len |-> 0, arg |-> 0]
NoReply == [kind |-> "", off |-> 0]

\* the model files of the sync folder and of the device's storage
Files == {"a.ctb", "b.goo"}

\* the files the environment of Spec writes and removes
SpecFiles == {"a.ctb"}

\* a fingerprint {mtime, size, checksum}; NoFile stands for "no such file"
\* (on disk, on the device) and for "no entry" (in self.metadata), Unknown
\* for a file the device holds after a transfer that did not complete
NoFile == [mtime |-> 0, size |-> 0, checksum |-> 0]
Unknown == [mtime |-> -1, size |-> -1, checksum |-> -1]

Workers == 1..MaxWorkers

VARIABLES
    \* ---- Printer.uploadFile (SpecUpload) ----
    upc,          \* position in uploadFile
    fsize,        \* size of the local file on disk (os.stat, f.read)
    filelength,   \* self.filelength
    remaining,    \* self.remaining
    offs,         \* offs, the send cursor
    retr,         \* retr, the retry counter
    send,         \* send
    readamt,      \* readamt
    ddlen,        \* len(dd), the length of the chunk last read
    m28,          \* m28, the reply to the begin-upload command
    m4012,        \* M4012, the reply to the size-verify command
    s,            \* s, the reply last received in the transfer loop
    sent,         \* the datagram last handed to sock.sendto
    result,       \* what uploadFile returned (NoResult while it runs)
    exc,          \* the stage in which uploadFile raised ("" if it did not)
    recorded,     \* history: the total length recorded at line 232
    drained,      \* history: datagrams absorbed after an error reply
    \* ---- SyncAgent (Spec) ----
    status,                  \* self.status
    syncing_files,           \* self.syncing_files
    error_files,             \* self.error_files (messages)
    printer_files,           \* the keys of self.printer_files
    current_uploading_file,  \* self.current_uploading_file
    printing_paused,         \* self.printing_paused
    manual_sync_requested,   \* self.manual_sync_requested
    metadata,                \* self.metadata
    delete_remote,           \* self.config["delete_remote"]
    ui,                      \* self.ui is set (SyncUI constructed)
    polling,                 \* a poll_progress callback is scheduled
    \* the scheduler thread (SyncAgent.run)
    spc,                     \* its position
    next_ping,               \* 0: as initialised; 1: now + ping_interval
    \* the upload worker threads (upload_files.worker)
    wpc,                     \* position of each
    filesToSync,             \* files of filesToSync not yet iterated
    filename,                \* the loop variable
    \* the environment
    disk,                    \* the sync folder: file -> fingerprint
    devFiles,                \* the device's storage: file -> what it holds
    devPrinting,             \* the device runs a print job
    \* history
    opFailed,                \* a file operation failed since the last pass began
    devSteady,               \* the device's print state since the iteration began
    faults,                  \* the exchanges and filesystem calls that failed so far
    quietPasses,             \* passes completed since the folder (what it holds,
                             \* what of it can be read) or the device last
                             \* changed (0, 1, 2 for two and more)
    probed,                  \* the identification query of ping_printer was
                             \* answered in this iteration of the scheduler
    sync_folder,             \* self.sync_folder
    noise,                   \* the events the watcher delivered for directories
                             \* and for files of other extensions, in order
    prints                   \* print jobs started so far

VARIABLES
    \* one call of a query of Printer (CBD_Api.py)
    called,       \* the function called: "send", "printingStatus", "getCardFiles"
    script,       \* what each receive of the call meets, in order (fixed)
    inbox,        \* the part of script no receive has met yet
    apc,          \* position of the call
    sendtos,      \* calls of sock.sendto so far
    recvs,        \* calls of sock.recv so far
    string,       \* printingStatus: the local string
    request,      \* getCardFiles: the local request
    output,       \* getCardFiles: the local output
    returned,     \* the value the call returned
    raised        \* the exception that left the call ("" if none)

VARIABLES
    \* one application of a function of the program to given arguments
    kfn,          \* the function: "chunk", "is_file_modified", "scan_local_files"
    kargs,        \* its arguments and what it reads of the folder
    kpc,          \* "call", then "returned" or "raised"
    kvalue        \* what it returned (for "chunk": the datagram sent)

kvars == <<kfn, kargs, kpc, kvalue>>

avars == <<called, script, inbox, apc, sendtos, recvs, string, request,
           output, returned, raised>>

uvars == <<upc, fsize, filelength, remaining, offs, retr, send, readamt,
           ddlen, m28, m4012, s, sent, result, exc, recorded, drained>>

evars == <<status, syncing_files, error_files, printer_files,
           current_uploading_file, printing_paused, manual_sync_requested,
           metadata, delete_remote, ui, polling, spc, next_ping, wpc,
           filesToSync, filename, disk, devFiles, devPrinting, opFailed, devSteady, faults,
           quietPasses, probed, noise, sync_folder, prints>>

vars == <<uvars, evars, avars, kvars>>

(***************************************************************************)
(* Printer.uploadFile                                                      *)
(***************************************************************************)

\* len(f.read(readamt)) after f.seek(offs): the bytes left in the file from
\* the cursor on, at most amt of them
ReadLen(cursor, amt, size) ==
    IF size - cursor <= 0 THEN 0
    ELSE IF size - cursor < amt THEN size - cursor ELSE amt

\* dd+dc: the chunk, its offset, the checksum and the trailer, as one datagram
ChunkPacket(cursor, len) ==
    [cmd |-> "chunk", off |-> cursor, len |-> len, arg |-> 0]

\* f"M4012 I1 T{self.filelength}"
VerifyCommand(len) ==
    [cmd |-> "M4012", off |-> 0, len |-> 0, arg |-> len]

\* the replies sock.recv can give to a chunk: none within the timeout, an
\* empty datagram, ok, a well-formed or a malformed resend, anything else
ChunkReplies ==
    {[kind |-> k, off |-> 0] : k \in {"lost", "empty", "ok", "garbage", "resend_bad"}}
    \cup {[kind |-> "resend", off |-> k] :
            k \in {o \in ResendOffsets : o <= filelength /\ retr < MaxRetr}}

\* a string uploadFile returns: its text, and the number of transfer
\* errors its first line states (0: it has no such line)
Result(text, count) == [text |-> text, count |-> count]

NoResult == Result("", 0)

\* line 227, a faulty variant: the tokens are not looked for
BeginRefusedNever(reply) == FALSE

\* line 227: the reply to M28 contains "Error" or "Failed"
BeginRefused(reply) == reply \in {"error", "failed"}

\* lines 281-284, a faulty variant: the retry count is left out
VerifyFailureBare(n) == Result("Size Verify Error", 0)

\* lines 281-284: the result when the reply to M4012 does not begin with ok;
\* its first line states the retry count when there were retries
VerifyFailure(n) == Result("Size Verify Error", IF n > 0 THEN n ELSE 0)

UInit ==
    /\ upc = "call"
    /\ fsize \in FileSizes
    /\ filelength = 0
    /\ remaining = 0
    /\ offs = 0
    /\ retr = 0
    /\ send = TRUE
    /\ readamt = ChunkSize
    /\ ddlen = 0
    /\ s = NoReply
    /\ sent = NoPacket
    /\ result = NoResult
    /\ exc = ""
    /\ recorded = 0
    /\ drained = 0
    /\ m28 = ""
    /\ m4012 = ""

\* uploadFile raises in the given stage
Raise(stage) ==
    /\ upc' = "raised"
    /\ exc' = stage

\* lines 226-230: M28 and its reply
U_Begin ==
    /\ upc = "call"
    /\ sent' = [cmd |-> "M28", off |-> 0, len |-> 0, arg |-> 0]
    /\ UNCHANGED m4012
    /\ \E reply \in {"ok", "error", "failed", "none"} :
         /\ m28' = IF reply = "none" THEN m28 ELSE reply
         /\ CASE reply = "none" ->
                   \* __sendRecieveSingle__ got no datagram in two attempts
                   /\ Raise("begin")
                   /\ UNCHANGED <<result, drained>>
              [] BeginRefused(reply) ->
                   \* line 229: the ok that follows the error line is absorbed
                   \E ack \in BOOLEAN :
                       IF ack
                       THEN /\ upc' = "done"
                            /\ result' = Result("M28 Error", 0)
                            /\ drained' = drained + 1
                            /\ UNCHANGED exc
                       ELSE /\ Raise("begin")
                            /\ UNCHANGED <<result, drained>>
              [] OTHER ->
                   /\ upc' = "stat"
                   /\ UNCHANGED <<result, exc, drained>>
    /\ UNCHANGED <<fsize, filelength, remaining, offs, retr, send, readamt,
                   ddlen, s, recorded>>
    /\ UNCHANGED <<evars, avars, kvars>>

\* lines 232-239
U_Stat ==
    /\ upc = "stat"
    /\ filelength' = fsize
    /\ remaining' = fsize
    /\ recorded' = fsize
    /\ offs' = 0
    /\ retr' = 0
    /\ send' = TRUE
    /\ readamt' = ChunkSize
    /\ upc' = "loop"
    /\ UNCHANGED <<fsize, ddlen, s, sent, result, exc>>
    /\ UNCHANGED <<evars, avars, kvars>>
    /\ UNCHANGED <<drained, m28, m4012>>

\* lines 240-250: the loop test and, when send is set, one chunk sent
U_Send ==
    /\ upc = "loop"
    /\ remaining > 0
    /\ IF send
       THEN /\ ddlen' = ReadLen(offs, readamt, fsize)
            /\ sent' = ChunkPacket(offs, ddlen')
       ELSE UNCHANGED <<ddlen, sent>>
    /\ upc' = "recv"
    /\ UNCHANGED <<fsize, filelength, remaining, offs, retr, send, readamt,
                   s, result, exc, recorded>>
    /\ UNCHANGED <<evars, avars, kvars>>
    /\ UNCHANGED <<drained, m28, m4012>>

\* a faulty variant of lines 252-258: remaining is lowered by the amount
\* asked of the read, not by the length of what was read
OnOkWholeChunk ==
    /\ readamt' = ChunkSize
    /\ IF send
       THEN /\ offs' = offs + ddlen
            /\ remaining' = remaining - readamt
            /\ UNCHANGED send
       ELSE /\ send' = TRUE
            /\ UNCHANGED <<offs, remaining>>
    /\ UNCHANGED retr

\* lines 252-258: the reply is ok
OnOk ==
    /\ readamt' = ChunkSize
    /\ IF send
       THEN /\ offs' = offs + ddlen
            /\ remaining' = remaining - ddlen
            /\ UNCHANGED send
       ELSE /\ send' = TRUE
            /\ UNCHANGED <<offs, remaining>>
    /\ UNCHANGED retr

\* a faulty variant of lines 259-269: the cursor moves, remaining is left as
\* it was
OnResendStale(k) ==
    /\ offs' = k
    /\ remaining' = remaining
    /\ retr' = retr + 1
    /\ send' = TRUE
    /\ UNCHANGED readamt

\* lines 259-269: the reply is "resend <n>,offset error:<k>"
OnResend(k) ==
    /\ offs' = k
    /\ remaining' = filelength - k
    /\ retr' = retr + 1
    /\ send' = TRUE
    /\ UNCHANGED readamt

\* lines 270-271: any other reply
OnGarbage ==
    /\ send' = FALSE
    /\ UNCHANGED <<offs, remaining, retr, readamt>>

\* lines 251-271: the reply just received is processed
OnReply(reply) ==
    /\ s' = reply
    /\ CASE reply.kind \in {"lost", "empty", "resend_bad"} ->
                 \* socket.timeout from recv, IndexError from s.split()[0]
                 \* or from the parse of a malformed resend
                 /\ Raise("transfer")
                 /\ UNCHANGED <<offs, remaining, retr, send, readamt>>
            [] reply.kind = "ok" ->
                 /\ OnOk
                 /\ upc' = "loop"
                 /\ UNCHANGED exc
            [] reply.kind = "resend" ->
                 /\ OnResend(reply.off)
                 /\ upc' = "loop"
                 /\ UNCHANGED exc
            [] OTHER ->
                 /\ OnGarbage
                 /\ upc' = "loop"
                 /\ UNCHANGED exc

\* lines 251-273: one reply, whatever the socket gives, received and
\* processed, then the pacing sleep
U_Recv ==
    /\ upc = "recv"
    /\ \E reply \in ChunkReplies : OnReply(reply)
    /\ UNCHANGED <<fsize, filelength, ddlen, sent, result, recorded>>
    /\ UNCHANGED <<evars, avars, kvars>>
    /\ UNCHANGED <<drained, m28, m4012>>

\* the replies of a device that answers every chunk with ok or with a
\* well-formed resend
AnsweredReplies == {r \in ChunkReplies : r.kind \in {"ok", "resend"}}

\* lines 251-273 against a device that answers every chunk
U_Answered ==
    /\ upc = "recv"
    /\ \E reply \in AnsweredReplies : OnReply(reply)
    /\ UNCHANGED <<fsize, filelength, ddlen, sent, result, recorded>>
    /\ UNCHANGED <<evars, avars, kvars>>
    /\ UNCHANGED <<drained, m28, m4012>>

\* the program that writes the local file truncates it during the transfer
U_Truncate ==
    /\ upc \in {"loop", "recv"}
    /\ \E n \in FileSizes : n < fsize /\ fsize' = n
    /\ UNCHANGED <<upc, filelength, remaining, offs, retr, send, readamt,
                   ddlen, s, sent, result, exc, recorded>>
    /\ UNCHANGED <<drained, m28, m4012>>
    /\ UNCHANGED <<evars, avars, kvars>>

\* the length the size-verify command carries: self.filelength as it is at
\* line 280, after line 276 has set it to 0
VerifyLength == 0

\* lines 274-280: the loop ends, the counters are cleared, M4012 is sent
U_Verify ==
    /\ upc = "loop"
    /\ remaining <= 0
    /\ filelength' = 0
    /\ remaining' = 0
    /\ sent' = VerifyCommand(VerifyLength)
    /\ upc' = "verify"
    /\ UNCHANGED <<fsize, offs, retr, send, readamt, ddlen, s, result, exc,
                   recorded>>
    /\ UNCHANGED <<evars, avars, kvars>>
    /\ UNCHANGED <<drained, m28, m4012>>

\* lines 280-288: the reply to M4012; on ok, M29 is sent
U_VerifyReply ==
    /\ upc = "verify"
    /\ UNCHANGED m28
    /\ \E reply \in {"ok", "other", "empty", "none"} :
         /\ m4012' = IF reply = "none" THEN m4012 ELSE reply
         /\ CASE reply \in {"empty", "none"} ->
                   /\ Raise("verify")
                   /\ UNCHANGED <<result, sent, drained>>
              [] reply = "other" ->
                   \* line 285: the ok that follows the error line is absorbed
                   \E ack \in BOOLEAN :
                       IF ack
                       THEN /\ upc' = "done"
                            /\ result' = VerifyFailure(retr)
                            /\ drained' = drained + 1
                            /\ UNCHANGED <<exc, sent>>
                       ELSE /\ Raise("verify")
                            /\ UNCHANGED <<result, sent, drained>>
              [] OTHER ->
                   /\ sent' = [cmd |-> "M29", off |-> 0, len |-> 0, arg |-> 0]
                   /\ upc' = "final"
                   /\ UNCHANGED <<result, exc, drained>>
    /\ UNCHANGED <<fsize, filelength, remaining, offs, retr, send, readamt,
                   ddlen, s, recorded>>
    /\ UNCHANGED <<evars, avars, kvars>>

\* lines 288-291: the reply to M29, the settle sleep, one more datagram
U_Final ==
    /\ upc = "final"
    /\ \E reply \in {"ok", "Error", "none"}, ack \in BOOLEAN :
         IF reply = "none" \/ ~ack
         THEN /\ Raise("final")
              /\ UNCHANGED result
         ELSE /\ upc' = "done"
              /\ result' = Result(reply, 0)
              /\ UNCHANGED exc
    /\ UNCHANGED <<fsize, filelength, remaining, offs, retr, send, readamt,
                   ddlen, s, sent, recorded>>
    /\ UNCHANGED <<evars, avars, kvars>>
    /\ UNCHANGED <<drained, m28, m4012>>

(***************************************************************************)
(* Printer: the queries (send, printingStatus, getCardFiles)               *)
(***************************************************************************)
\* The text of a datagram is a sequence of pieces: words, extensions and
\* white space.  The datagrams of the model are in lower case, as the device
\* sends them, so lower() changes none of them.
Whitespace == {" ", "\r\n"}

Ok == <<"ok", "\r\n">>
Empty == <<"\r\n">>
SDPrinting == <<"SD", " ", "printing", "\r\n">>
BeginFileList == <<"Begin file list", "\r\n">>
EndFileList == <<"End file list", "\r\n">>
Foo == <<"foo", ".ctb", " ", "1200000", "\r\n">>
Bar == <<"bar", ".goo", " ", "0", "\r\n">>

\* no datagram within the timeout of the socket (settimeout(3), line 15)
Lost == <<>>

Datagrams == {Ok, Empty, SDPrinting, BeginFileList, EndFileList, Foo, Bar}

\* what the receives of one call can meet
Scripts == UNION {[1..n -> Datagrams \cup {Lost}] : n \in 0..MaxInbox}

\* str.rstrip(), str.strip() and str.split()
RECURSIVE rstrip(_)
rstrip(t) ==
    IF t # <<>> /\ t[Len(t)] \in Whitespace
    THEN rstrip(SubSeq(t, 1, Len(t) - 1))
    ELSE t

RECURSIVE lstrip(_)
lstrip(t) ==
    IF t # <<>> /\ Head(t) \in Whitespace THEN lstrip(Tail(t)) ELSE t

strip(t) == lstrip(rstrip(t))

split(t) == SelectSeq(t, LAMBDA piece : piece \notin Whitespace)

\* str.rfind(ext): the place of the last ext in t, 0 when there is none
rfind(t, ext) ==
    LET at == {i \in 1..Len(t) : t[i] = ext}
    IN  IF at = {} THEN 0 ELSE CHOOSE i \in at : \A j \in at : j <= i

\* Python values of two types and the != of Python between them
PyStr(v) == [type |-> "str", value |-> v]
PyInt(n) == [type |-> "int", value |-> n]
PyNotEqual(a, b) == a.type # b.type \/ a.value # b.value

exts == {".ctb", ".goo"}

\* __stripFormatting__, lines 80-83
stripFormatting(datagram) == rstrip(datagram)

\* __stripSpaceFromBack__, lines 85-90: (name, what follows the extension)
stripSpaceFromBack(line) ==
    LET found == {rfind(line, ext) : ext \in exts}
        ext_index == CHOOSE i \in found : \A j \in found : j <= i
    IN  <<SubSeq(line, 1, ext_index),
          strip(SubSeq(line, ext_index + 1, Len(line)))>>

\* getCardFiles, line 103
HasExtension(line) == \E i \in 1..Len(line) : line[i] \in exts

\* getCardFiles, line 104
KeepsLine(line) ==
    /\ line # stripFormatting(BeginFileList)
    /\ PyNotEqual(PyStr(stripSpaceFromBack(line)[2]), PyInt(0))

\* sock.recv: whether a datagram arrives, and what is left for later receives
Arrives(box) == box # <<>> /\ Head(box) # Lost
After(box) == IF box = <<>> THEN box ELSE Tail(box)

\* __sendRecieveSingle__, lines 23-32, after its sendto: the receive of the
\* try, the receive of the except, and the return of the finally, which
\* reads output although no receive has bound it when both have failed
sendRecieveSingle(box) ==
    IF Arrives(box)
    THEN [output |-> Head(box), raised |-> "", inbox |-> After(box), recvs |-> 1]
    ELSE IF Arrives(After(box))
    THEN [output |-> Head(After(box)), raised |-> "",
          inbox |-> After(After(box)), recvs |-> 2]
    ELSE [output |-> <<>>, raised |-> "UnboundLocalError",
          inbox |-> After(After(box)), recvs |-> 2]

\* no call of a query
AIdle ==
    /\ called = "none"
    /\ script = <<>>
    /\ inbox = <<>>
    /\ apc = "idle"
    /\ sendtos = 0
    /\ recvs = 0
    /\ string = <<>>
    /\ request = <<>>
    /\ output = <<>>
    /\ returned = <<>>
    /\ raised = ""

\* a query is called
AInit ==
    /\ called \in {"send", "printingStatus", "getCardFiles"}
    /\ script \in Scripts
    /\ inbox = script
    /\ apc = "call"
    /\ sendtos = 0
    /\ recvs = 0
    /\ string = <<>>
    /\ request = <<>>
    /\ output = <<>>
    /\ returned = <<>>
    /\ raised = ""

\* the call ends with an exception
Raises(name) ==
    /\ apc' = "raised"
    /\ raised' = name

\* __sendRecieveSingle__, lines 23-32
A_Send ==
    /\ called = "send"
    /\ apc = "call"
    /\ LET r == sendRecieveSingle(inbox)
       IN  /\ sendtos' = sendtos + 1
           /\ recvs' = recvs + r.recvs
           /\ inbox' = r.inbox
           /\ IF r.raised = ""
              THEN /\ apc' = "returned"
                   /\ returned' = r.output
                   /\ UNCHANGED raised
              ELSE /\ Raises(r.raised)
                   /\ UNCHANGED returned
    /\ UNCHANGED <<called, script, string, request, output>>
    /\ UNCHANGED <<uvars, evars, kvars>>

\* printingStatus, lines 179-182: the exchange of M27 inside the try
A_StatusQuery ==
    /\ called = "printingStatus"
    /\ apc = "call"
    /\ LET r == sendRecieveSingle(inbox)
       IN  /\ sendtos' = sendtos + 1
           /\ recvs' = recvs + r.recvs
           /\ inbox' = r.inbox
           /\ IF r.raised = ""
              THEN /\ string' = stripFormatting(r.output)
                   /\ apc' = "absorb"
                   /\ UNCHANGED returned
              ELSE /\ apc' = "returned"
                   /\ returned' = <<"Not Printing">>
                   /\ UNCHANGED string
    /\ UNCHANGED <<called, script, request, output, raised>>
    /\ UNCHANGED <<uvars, evars, kvars>>

\* printingStatus, lines 184-187: the receive of the trailing ok and the
\* test of the first word, neither inside the try
A_StatusAbsorb ==
    /\ called = "printingStatus"
    /\ apc = "absorb"
    /\ recvs' = recvs + 1
    /\ inbox' = After(inbox)
    /\ IF ~Arrives(inbox)
       THEN /\ Raises("timeout")
            /\ UNCHANGED returned
       ELSE IF split(string) = <<>>
       THEN /\ Raises("IndexError")
            /\ UNCHANGED returned
       ELSE /\ apc' = "returned"
            /\ returned' = IF split(string)[1] = "SD"
                           THEN <<"Printing">> \o string
                           ELSE <<"Not Printing">>
            /\ UNCHANGED raised
    /\ UNCHANGED <<called, script, sendtos, string, request, output>>
    /\ UNCHANGED <<uvars, evars, kvars>>

\* getCardFiles, lines 98-100: M20 and the first line
A_ListQuery ==
    /\ called = "getCardFiles"
    /\ apc = "call"
    /\ sendtos' = sendtos + 1
    /\ recvs' = recvs + 1
    /\ inbox' = After(inbox)
    /\ output' = <<>>
    /\ IF Arrives(inbox)
       THEN /\ request' = stripFormatting(Head(inbox))
            /\ apc' = "loop"
            /\ UNCHANGED raised
       ELSE /\ Raises("timeout")
            /\ UNCHANGED request
    /\ UNCHANGED <<called, script, string, returned>>
    /\ UNCHANGED <<uvars, evars, kvars>>

\* getCardFiles, lines 102-108: one turn of the loop
A_ListLine ==
    /\ called = "getCardFiles"
    /\ apc = "loop"
    /\ request # stripFormatting(EndFileList)
    /\ output' = IF HasExtension(request) /\ KeepsLine(request)
                 THEN Append(output, stripSpaceFromBack(request))
                 ELSE output
    /\ recvs' = recvs + 1
    /\ inbox' = After(inbox)
    /\ IF Arrives(inbox)
       THEN /\ request' = stripFormatting(Head(inbox))
            /\ UNCHANGED <<apc, raised>>
       ELSE /\ Raises("timeout")
            /\ UNCHANGED request
    /\ UNCHANGED <<called, script, sendtos, string, returned>>
    /\ UNCHANGED <<uvars, evars, kvars>>

\* getCardFiles, lines 109-110: the trailing ok and the return
A_ListEnd ==
    /\ called = "getCardFiles"
    /\ apc = "loop"
    /\ request = stripFormatting(EndFileList)
    /\ recvs' = recvs + 1
    /\ inbox' = After(inbox)
    /\ IF Arrives(inbox)
       THEN /\ apc' = "returned"
            /\ returned' = output
            /\ UNCHANGED raised
       ELSE /\ Raises("timeout")
            /\ UNCHANGED returned
    /\ UNCHANGED <<called, script, sendtos, string, request, output>>
    /\ UNCHANGED <<uvars, evars, kvars>>

(***************************************************************************)
(* Printer: the status and removal commands of the facade                  *)
(***************************************************************************)
\* the status line of a running print, with the bytes done and in all, and
\* the line that answers M30
SDPrintingByte == <<"SD", " ", "printing", " ", "byte", " ", "1/2", "\r\n">>
Deleted == <<"File deleted", "\r\n">>

FacadeDatagrams == {Ok, SDPrinting, SDPrintingByte, Deleted}

FacadeScripts ==
    UNION {[1..n -> FacadeDatagrams \cup {Lost}] : n \in 0..MaxInbox}

\* str.split("/") of a word of the model
splitSlash(word) == IF word = "1/2" THEN <<"1", "2">> ELSE <<word>>

\* what the device sends in answer to the command of a call: the line of
\* the answer, then the trailing ok
DeviceAnswers(call) ==
    CASE call \in {"printingStatus", "printingPercent"} ->
             {<<SDPrinting, Ok>>, <<SDPrintingByte, Ok>>}
      [] call = "removeCardFile" -> {<<Deleted, Ok>>}
      [] OTHER -> {}

\* a command of the facade is called
CInit ==
    /\ called \in {"printingStatus", "printingPercent", "removeCardFile"}
    /\ script \in FacadeScripts
    /\ inbox = script
    /\ apc = "call"
    /\ sendtos = 0
    /\ recvs = 0
    /\ string = <<>>
    /\ request = <<>>
    /\ output = <<>>
    /\ returned = <<>>
    /\ raised = ""

\* printingPercent, lines 195-196: the exchange of M27 and the fourth word
\* of the status line, split at the stroke
printingPercent ==
    /\ called = "printingPercent"
    /\ apc = "call"
    /\ LET r == sendRecieveSingle(inbox)
           words == split(stripFormatting(r.output))
       IN  /\ sendtos' = sendtos + 1
           /\ recvs' = recvs + r.recvs
           /\ inbox' = r.inbox
           /\ IF r.raised # ""
              THEN /\ Raises(r.raised)
                   /\ UNCHANGED <<string, returned>>
              ELSE /\ string' = stripFormatting(r.output)
                   /\ IF Len(words) < 4
                      THEN /\ Raises("IndexError")
                           /\ UNCHANGED returned
                      ELSE /\ apc' = "returned"
                           /\ returned' = splitSlash(words[4])
                           /\ UNCHANGED raised
    /\ UNCHANGED <<called, script, request, output>>
    /\ UNCHANGED <<uvars, evars, kvars>>

\* removeCardFile, lines 158-160: the exchange of M30, the receive of the
\* trailing ok, and the return of the first answer
removeCardFile ==
    /\ called = "removeCardFile"
    /\ apc = "call"
    /\ LET r == sendRecieveSingle(inbox)
       IN  /\ sendtos' = sendtos + 1
           /\ IF r.raised # ""
              THEN /\ Raises(r.raised)
                   /\ recvs' = recvs + r.recvs
                   /\ inbox' = r.inbox
                   /\ UNCHANGED <<output, returned>>
              ELSE /\ output' = stripFormatting(r.output)
                   /\ recvs' = recvs + r.recvs + 1
                   /\ inbox' = After(r.inbox)
                   /\ IF Arrives(r.inbox)
                      THEN /\ apc' = "returned"
                           /\ returned' = stripFormatting(r.output)
                           /\ UNCHANGED raised
                      ELSE /\ Raises("timeout")
                           /\ UNCHANGED returned
    /\ UNCHANGED <<called, script, string, request>>
    /\ UNCHANGED <<uvars, evars, kvars>>

(***************************************************************************)
(* SyncAgent: fingerprints                                                 *)
(***************************************************************************)

\* a faulty variant of lines 321-323: the hash is always computed
NeedHashAlways(meta, st) == TRUE

\* scan_local_files, line 323: whether the hash of a file must be recomputed
NeedHash(meta, st) ==
    \/ meta.checksum = NoFile.checksum
    \/ meta.mtime # st.mtime
    \/ meta.size # st.size

\* scan_local_files, lines 326-333: self.metadata after the scan of folder dk
ScanMetadata(md, dk) ==
    [f \in Files |->
        IF dk[f] # NoFile /\ NeedHash(md[f], dk[f]) THEN dk[f] ELSE md[f]]

\* scan_local_files, line 334: files_meta, the dict the scan returns (NoFile
\* for a file that is not in the folder)
ScanFiles(md, dk) ==
    [f \in Files |->
        IF dk[f] = NoFile THEN NoFile
        ELSE [mtime |-> dk[f].mtime, size |-> dk[f].size,
              checksum |-> IF NeedHash(md[f], dk[f]) THEN dk[f].checksum
                           ELSE md[f].checksum]]

\* a faulty variant of lines 347-356: the modification time is not looked at
IsFileModifiedByHash(stored, local, mtimeNow) ==
    \/ stored = NoFile
    \/ local.checksum # stored.checksum

\* is_file_modified: stored is self.metadata.get(filename), local the entry
\* of files_meta, mtimeNow the st_mtime read at line 354
IsFileModified(stored, local, mtimeNow) ==
    \/ stored = NoFile
    \/ local.checksum # stored.checksum
    \/ mtimeNow # stored.mtime

\* what a write leaves of a file: a later modification time and new bytes
\* (the hash names the version written)
Written(old) ==
    IF old.mtime < MaxMtime
    THEN {[mtime |-> old.mtime + 1, size |-> 1, checksum |-> old.mtime + 1]}
    ELSE {}

(***************************************************************************)
(* Functions of the program applied to given arguments                     *)
(***************************************************************************)

\* the files a chunk is read from: byte i (from 0) of the file of the given
\* seed; the files differ in every byte
FileByte(seed, i) == (seed * ((i + 1) % 256) + (i \div 256)) % 256

Seeds == {1, 7, 255}

\* lengths of the file and positions of the send cursor, among them a last
\* short chunk, a whole chunk and a cursor that takes four bytes to write
PacketSizes == {0, 1, 5, 1280, 1281, 3000, 16909065}
PacketOffsets == {0, 1, 1280, 2560, 16909060}

\* f.seek(offs); f.read(readamt), lines 242-243
read(size, seed, cursor, amt) ==
    [j \in 1..ReadLen(cursor, amt, size) |-> FileByte(seed, cursor + j - 1)]

\* a faulty variant of line 244: the most significant byte comes first
to_bytesBig(n) ==
    <<(n \div 16777216) % 256, (n \div 65536) % 256, (n \div 256) % 256,
      n % 256>>

\* offs.to_bytes(length=4, byteorder='little'), line 244
to_bytes(n) ==
    <<n % 256, (n \div 256) % 256, (n \div 65536) % 256,
      (n \div 16777216) % 256>>

\* a ^ b on bytes
RECURSIVE xor(_, _)
xor(a, b) ==
    IF a = 0 THEN b
    ELSE IF b = 0 THEN a
    ELSE (((a % 2) + (b % 2)) % 2) + 2 * xor(a \div 2, b \div 2)

\* for c in bytes[i..last]: cxor = cxor ^ c
RECURSIVE xorRange(_, _, _, _)
xorRange(cxor, bytes, i, last) ==
    IF i > last THEN cxor
    ELSE LET next == xor(cxor, bytes[i])
         IN  IF next >= 0 THEN xorRange(next, bytes, i + 1, last) ELSE next

\* for c in bytes: cxor = cxor ^ c, from element i on (lines 246-247); the
\* loop is unrolled in runs of 32 elements, taken in the same order
RECURSIVE xorInto(_, _, _)
xorInto(cxor, bytes, i) ==
    IF i > Len(bytes) THEN cxor
    ELSE LET last == IF i + 31 < Len(bytes) THEN i + 31 ELSE Len(bytes)
             next == xorRange(cxor, bytes, i, last)
         IN  IF next >= 0 THEN xorInto(next, bytes, last + 1) ELSE next

\* lines 244-250: dd+dc as handed to sendto
Datagram(dd, cursor) ==
    LET dc == to_bytes(cursor)
        cxor == xorInto(xorInto(0, dd, 1), dc, 1)
    IN  dd \o dc \o <<cxor, Trailer>>

\* the hashes, sizes and modification times of the fingerprints applied to
Hashes == 1..2
Sizes == 1..2
Mtimes == 1..MaxMtime

\* a file of the folder as stat and compute_checksum find it
OnDisk == [mtime : Mtimes, size : Sizes, checksum : Hashes]

\* self.metadata.get(key): no entry, an entry without a hash, a fingerprint
StoredEntries ==
    {NoFile} \cup [mtime : Mtimes, size : Sizes, checksum : {0} \cup Hashes]

\* the dict with one entry, for the model file a.ctb
Only(entry) == [f \in Files |-> IF f = "a.ctb" THEN entry ELSE NoFile]

KIdle ==
    /\ kfn = ""
    /\ kargs = <<>>
    /\ kpc = "idle"
    /\ kvalue = <<>>

\* the applications: a chunk of a file at a cursor; is_file_modified for a
\* stored entry, an entry of the scan and the file as it is at line 354
\* (NoFile: removed since the scan); scan_local_files, followed by the test
\* of line 291, for a stored entry and a file of the folder
KInit ==
    /\ kpc = "call"
    /\ kvalue = <<>>
    /\ \/ /\ kfn = "chunk"
          /\ kargs \in [size : PacketSizes, seed : Seeds, offs : PacketOffsets]
       \/ /\ kfn = "is_file_modified"
          /\ kargs \in [stored : StoredEntries, local : OnDisk,
                         now : OnDisk \cup {NoFile}]
       \/ /\ kfn = "scan_local_files"
          /\ kargs \in [stored : StoredEntries, file : OnDisk]

\* uploadFile, lines 242-250: one chunk is read and sent
K_Chunk ==
    /\ kpc = "call"
    /\ kfn = "chunk"
    /\ kvalue' = Datagram(read(kargs.size, kargs.seed, kargs.offs, ChunkSize),
                          kargs.offs)
    /\ kpc' = "returned"
    /\ UNCHANGED <<kfn, kargs>>
    /\ UNCHANGED <<uvars, evars, avars>>

\* is_file_modified, lines 347-356; the stat of line 354 raises when the
\* file is no longer in the folder
K_IsFileModified ==
    /\ kpc = "call"
    /\ kfn = "is_file_modified"
    /\ IF /\ kargs.stored # NoFile
          /\ kargs.local.checksum = kargs.stored.checksum
          /\ kargs.now = NoFile
       THEN /\ kpc' = "raised"
            /\ UNCHANGED kvalue
       ELSE /\ kpc' = "returned"
            /\ kvalue' = IsFileModified(kargs.stored, kargs.local,
                                        kargs.now.mtime)
    /\ UNCHANGED <<kfn, kargs>>
    /\ UNCHANGED <<uvars, evars, avars>>

\* scan_local_files, lines 307-338, for a folder that holds one file, and
\* the test sync_all makes of what it returned (line 291)
K_Scan ==
    /\ kpc = "call"
    /\ kfn = "scan_local_files"
    /\ LET md == Only(kargs.stored)
           dk == Only(kargs.file)
           files_meta == ScanFiles(md, dk)
           after == ScanMetadata(md, dk)
       IN  kvalue' = [files_meta |-> files_meta["a.ctb"],
                      metadata |-> after["a.ctb"],
                      modified |-> IsFileModified(after["a.ctb"],
                                                  files_meta["a.ctb"],
                                                  kargs.file.mtime)]
    /\ kpc' = "returned"
    /\ UNCHANGED <<kfn, kargs>>
    /\ UNCHANGED <<uvars, evars, avars>>

(***************************************************************************)
(* SyncAgent: status and errors                                            *)
(***************************************************************************)

NoWorkerActive == \A w \in Workers : wpc[w] = "idle"

\* whether one more exchange or filesystem call may fail
MayFail == Len(faults) < MaxFaults

\* the outcomes of an exchange that answers or fails
Outcomes == IF MayFail THEN BOOLEAN ELSE {TRUE}

\* the faults after an exchange that went well (ok) or failed
Counted(ok, kind) == IF ok THEN faults ELSE Append(faults, kind)

\* the faults of a run in which nothing is let fail
NoFaults == [i \in 1..MaxFaults |-> "none"]

\* the results of Printer.printingStatus: "Printing ..." when the device
\* prints and its status line and the trailing ok arrive; "Not Printing" when
\* it does not print, and also when no reply arrives in two attempts; an
\* exception when the trailing ok is lost or the reply is empty
PrintingStatusResults ==
    (IF devPrinting THEN {"printing"} ELSE {"notprinting"})
    \cup (IF MayFail THEN {"notprinting", "raise"} ELSE {})

\* whether result r of printingStatus came out of a failed exchange
StatusFault(r) == r = "raise" \/ (r = "notprinting" /\ devPrinting)

(***************************************************************************)
(* The environment: the sync folder, the watcher, the device, the user     *)
(***************************************************************************)

\* the sync folder with no model file in it, with every model file written
\* once, and with one of them
EmptyFolder == [f \in Files |-> NoFile]
FullFolder == [f \in Files |-> [mtime |-> 1, size |-> 1, checksum |-> 1]]
OneFile == [f \in Files |-> IF f \in SpecFiles THEN FullFolder[f] ELSE NoFile]

EInit ==
    /\ status = "offline"
    /\ syncing_files = {}
    /\ error_files = {}
    /\ printer_files = {}
    /\ current_uploading_file = ""
    /\ printing_paused = FALSE
    /\ manual_sync_requested = FALSE
    /\ metadata = [f \in Files |-> NoFile]
    /\ ui = FALSE
    /\ polling = FALSE
    /\ spc = "top"
    /\ next_ping = 0
    /\ wpc = [w \in Workers |-> "idle"]
    /\ filesToSync = [w \in Workers |-> {}]
    /\ filename = [w \in Workers |-> ""]
    /\ devFiles = [f \in Files |-> NoFile]
    /\ devPrinting = FALSE
    /\ opFailed = FALSE
    /\ devSteady = "idle"
    /\ quietPasses = 0
    /\ probed = FALSE
    /\ noise = <<>>
    /\ sync_folder = "home"

\* SyncAgent.manual_sync
\* a faulty variant of line 509: every signal flips the flag, so that a
\* second signal takes back the first
manual_syncFlips ==
    manual_sync_requested' = ~manual_sync_requested

manual_sync ==
    manual_sync_requested' = TRUE

\* the paths the watcher reports besides those of the model files: a model
\* file in capitals, a file of another extension, a directory, and a
\* directory whose name ends like a model file
OtherPaths == {"A.CTB", "notes.txt", "parts", "old.goo"}
Directories == {"parts", "old.goo"}

\* str.lower, on the paths of the model
lower(path) == IF path = "A.CTB" THEN "a.ctb" ELSE path

\* the suffixes on_any_event looks for (line 536)
watched == {".ctb", ".goo"}

\* str.endswith for a tuple of suffixes, on the lower-case paths of the model
endswith(path, suffixes) ==
    \/ ".ctb" \in suffixes /\ path \in {"a.ctb"}
    \/ ".goo" \in suffixes /\ path \in {"b.goo", "old.goo"}

\* the event the watcher delivers for a path
Event(path) == [src_path |-> path, is_directory |-> path \in Directories]

\* the event for a write or a removal of a model file
FileEvent(f) == Event(f)

\* the events for what is not a model file of the folder
OtherEvents == {Event(path) : path \in OtherPaths}

\* a faulty variant of lines 533-541: neither the kind of the entry nor its
\* extension is looked at
on_any_eventForAll(event) == manual_sync

\* FolderChangeHandler.on_any_event, lines 533-541: the event of a directory
\* and the event of a path without a recognized extension are ignored; the
\* refresh of the window's lists that line 540 schedules runs in the window's
\* thread and reads the sets of the engine only
on_any_event(event) ==
    IF event.is_directory THEN UNCHANGED manual_sync_requested
    ELSE IF ~endswith(lower(event.src_path), watched)
    THEN UNCHANGED manual_sync_requested
    ELSE manual_sync

\* the folder the observer watches: the sync folder as it was when start
\* scheduled the handler (line 485)
Observed == "home"

\* the watcher at an event of the sync folder: the handler is called when
\* the sync folder is the folder observed
Watcher(event) ==
    IF sync_folder = Observed THEN on_any_event(event)
    ELSE UNCHANGED manual_sync_requested

\* a program writes a model file into the sync folder (created or modified)
FsWrite(f) ==
    /\ \E fp \in Written(disk[f]) : disk' = [disk EXCEPT ![f] = fp]
    /\ Watcher(FileEvent(f))
    /\ UNCHANGED <<status, syncing_files, error_files, printer_files,
                   current_uploading_file, printing_paused,
                   metadata, delete_remote, ui,
                   polling, spc, next_ping, wpc, filesToSync, filename,
                   devFiles, devPrinting, opFailed, devSteady>>
    /\ UNCHANGED <<faults, prints>>
    /\ quietPasses' = 0
    /\ UNCHANGED probed
    /\ UNCHANGED <<noise, sync_folder>>
    /\ UNCHANGED <<uvars, avars, kvars>>

\* a model file is removed from the sync folder
FsDelete(f) ==
    /\ disk[f] # NoFile
    /\ disk' = [disk EXCEPT ![f] = NoFile]
    /\ Watcher(FileEvent(f))
    /\ UNCHANGED <<status, syncing_files, error_files, printer_files,
                   current_uploading_file, printing_paused,
                   metadata, delete_remote, ui,
                   polling, spc, next_ping, wpc, filesToSync, filename,
                   devFiles, devPrinting, opFailed, devSteady>>
    /\ UNCHANGED <<faults, prints>>
    /\ quietPasses' = 0
    /\ UNCHANGED probed
    /\ UNCHANGED <<noise, sync_folder>>
    /\ UNCHANGED <<uvars, avars, kvars>>

\* the watcher delivers an event for a directory or for a file that is not
\* a model file of the folder
FsOther(event) ==
    /\ Len(noise) < MaxNoise
    /\ noise' = Append(noise, event)
    /\ UNCHANGED sync_folder
    /\ on_any_event(event)
    /\ UNCHANGED <<status, syncing_files, error_files, printer_files,
                   current_uploading_file, printing_paused,
                   metadata, delete_remote, ui,
                   polling, spc, next_ping, wpc, filesToSync, filename,
                   disk, devFiles, devPrinting, opFailed, devSteady>>
    /\ UNCHANGED <<faults, prints>>
    /\ UNCHANGED <<quietPasses, probed>>
    /\ UNCHANGED <<uvars, avars, kvars>>

\* SyncUI.change_sync_folder, lines 863-869: the user picks another folder,
\* which holds no model file, while no upload runs; the observer is left as
\* start scheduled it
change_sync_folder ==
    /\ ui
    /\ NoWorkerActive
    /\ sync_folder = "home"
    /\ sync_folder' = "other"
    /\ disk' = EmptyFolder
    /\ quietPasses' = 0
    /\ UNCHANGED <<status, syncing_files, error_files, printer_files,
                   current_uploading_file, printing_paused,
                   manual_sync_requested, metadata, delete_remote, ui,
                   polling, spc, next_ping, wpc, filesToSync, filename,
                   devFiles, devPrinting, opFailed, devSteady>>
    /\ UNCHANGED <<faults, prints>>
    /\ UNCHANGED <<probed, noise>>
    /\ UNCHANGED <<uvars, avars, kvars>>

\* a print job starts on the device
DevStartPrint ==
    /\ ~devPrinting
    /\ devPrinting' = TRUE
    /\ devSteady' = "changed"
    /\ UNCHANGED <<status, syncing_files, error_files, printer_files,
                   current_uploading_file, printing_paused,
                   manual_sync_requested, metadata, delete_remote, ui,
                   polling, spc, next_ping, wpc, filesToSync, filename,
                   disk, devFiles, opFailed>>
    /\ prints < MaxPrints
    /\ prints' = prints + 1
    /\ UNCHANGED faults
    /\ quietPasses' = 0
    /\ UNCHANGED probed
    /\ UNCHANGED <<noise, sync_folder>>
    /\ UNCHANGED <<uvars, avars, kvars>>

\* the print job of the device ends
DevEndPrint ==
    /\ devPrinting
    /\ devPrinting' = FALSE
    /\ devSteady' = "changed"
    /\ UNCHANGED <<status, syncing_files, error_files, printer_files,
                   current_uploading_file, printing_paused,
                   manual_sync_requested, metadata, delete_remote, ui,
                   polling, spc, next_ping, wpc, filesToSync, filename,
                   disk, devFiles, opFailed>>
    /\ UNCHANGED <<faults, prints>>
    /\ quietPasses' = 0
    /\ UNCHANGED probed
    /\ UNCHANGED <<noise, sync_folder>>
    /\ UNCHANGED <<uvars, avars, kvars>>

\* SyncAgent.setup_ui, line 526: self.ui is set, after the scheduler thread
\* was started at line 490
setup_ui ==
    /\ ~ui
    /\ ui' = TRUE
    /\ UNCHANGED <<status, syncing_files, error_files, printer_files,
                   current_uploading_file, printing_paused,
                   manual_sync_requested, metadata, delete_remote, polling,
                   spc, next_ping, wpc, filesToSync, filename, disk,
                   devFiles, devPrinting, opFailed,
                   devSteady>>
    /\ UNCHANGED <<faults, prints>>
    /\ UNCHANGED <<quietPasses, probed>>
    /\ UNCHANGED <<noise, sync_folder>>
    /\ UNCHANGED <<uvars, avars, kvars>>

(***************************************************************************)
(* SyncAgent.run, the scheduler thread                                     *)
(***************************************************************************)

\* ping_printer, lines 244-246: whether the identification query is sent at
\* all; when it is not, ping_printer returns True (line 254)
PingProbes ==
    /\ current_uploading_file = ""
    /\ (~ui \/ ~printing_paused)

\* getCardFiles: the names the device lists
Listing == {f \in Files : devFiles[f] # NoFile}

\* run, lines 205-212: the loop test and the manual-sync branch up to the
\* call of ping_printer or of sync_all
RunTop ==
    /\ spc = "top"
    /\ devSteady' = IF devPrinting THEN "printing" ELSE "idle"
    /\ IF manual_sync_requested
       THEN /\ manual_sync_requested' = FALSE
            /\ spc' = IF status = "offline" /\ PingProbes
                      THEN "m_probe" ELSE "m_sync"
       ELSE /\ spc' = "p_due"
            /\ UNCHANGED manual_sync_requested
    /\ UNCHANGED <<status, syncing_files, error_files, printer_files,
                   current_uploading_file, printing_paused, metadata,
                   delete_remote, ui, polling, next_ping, wpc, filesToSync,
                   filename, disk, devFiles, devPrinting, opFailed>>
    /\ UNCHANGED <<faults, prints>>
    /\ probed' = FALSE
    /\ UNCHANGED quietPasses
    /\ UNCHANGED <<noise, sync_folder>>
    /\ UNCHANGED <<uvars, avars, kvars>>

\* run, lines 210-211: the identification query of the manual-sync branch
\* answers or fails; on failure the loop continues without sleeping
ManualProbe ==
    /\ spc = "m_probe"
    /\ \E ok \in Outcomes :
         /\ spc' = IF ok THEN "m_sync" ELSE "top"
         /\ probed' = ok
         /\ faults' = Counted(ok, "manual_probe")
    /\ UNCHANGED prints
    /\ UNCHANGED <<status, syncing_files, error_files, printer_files,
                   current_uploading_file, printing_paused,
                   manual_sync_requested, metadata, delete_remote, ui,
                   polling, next_ping, wpc, filesToSync, filename, disk,
                   devFiles, devPrinting, opFailed,
                   devSteady>>
    /\ UNCHANGED quietPasses
    /\ UNCHANGED <<noise, sync_folder>>
    /\ UNCHANGED <<uvars, avars, kvars>>

\* a faulty variant of lines 295-300: no fingerprint is removed
PurgedNever(md, local_set) == md

\* sync_all, lines 295-300: the fingerprints of the files the scan did not
\* return are removed
Purged(md, local_set) ==
    [f \in Files |-> IF f \in local_set THEN md[f] ELSE NoFile]

\* sync_all, lines 259-303: the pass under sync_lock. unread: a file of the
\* folder whose stat or read raises in the scan (lines 312-336), which the
\* scan leaves out of what it returns; listOk: getCardFiles
\* returned; delFailed: the files whose removeCardFile raised, goneAnyway
\* those of them the device removed all the same; mid: a file of the folder
\* written or removed between its scan and line 354 (NoFile: removed)
Pass(done) ==
    \E unread \in {""} \cup (IF MayFail THEN {f \in Files : disk[f] # NoFile}
                                        ELSE {}) :
    LET seen == [f \in Files |-> IF f = unread THEN NoFile ELSE disk[f]]
        local_files == ScanFiles(metadata, seen)
        local_set == {f \in Files : local_files[f] # NoFile}
        md1 == ScanMetadata(metadata, seen)
        mayFail == MayFail /\ unread = ""
    IN  \E listOk \in (IF mayFail THEN BOOLEAN ELSE {TRUE}) :
        LET pf == IF listOk THEN Listing ELSE {}
            to_delete == IF delete_remote THEN pf \ local_set ELSE {} 
        IN  \E delFailed \in (IF mayFail THEN SUBSET to_delete ELSE {{}}) :
            \E goneAnyway \in SUBSET delFailed :
            \E mid \in {<<"", NoFile>>} \cup
                       UNION {{<<m, fp>> : fp \in Written(disk[m]) \cup {NoFile}} :
                                m \in local_set \cap pf} :
            LET md2 == [f \in Files |->
                          IF f \in to_delete \ delFailed THEN NoFile ELSE md1[f]]
                mtimeNow == [f \in Files |->
                          IF f = mid[1] THEN mid[2].mtime ELSE disk[f].mtime]
                toAdd == {f \in local_set :
                            \/ f \notin pf
                            \/ IsFileModified(md2[f], local_files[f], mtimeNow[f])}
                md3 == Purged(md2, local_set)
            IN  /\ printer_files' = pf
                /\ devFiles' = [f \in Files |->
                      IF f \in (to_delete \ delFailed) \cup goneAnyway
                      THEN NoFile ELSE devFiles[f]]
                /\ error_files' = error_files \cup
                      {<<"Failed to delete", f>> : f \in delFailed}
                /\ opFailed' = (delFailed # {})
                /\ faults' = IF unread # "" THEN Counted(FALSE, "unreadable")
                              ELSE IF listOk THEN Counted(delFailed = {}, "delete")
                              ELSE Counted(FALSE, "listing")
                /\ quietPasses' = IF mid[1] # "" \/ unread # "" THEN 0
                                   ELSE IF quietPasses >= 1 THEN 2 ELSE 1
                /\ disk' = IF mid[1] = "" THEN disk
                           ELSE [disk EXCEPT ![mid[1]] = mid[2]]
                /\ IF mid[1] = "" THEN UNCHANGED manual_sync_requested
                   ELSE Watcher(FileEvent(mid[1]))
                /\ IF mid[1] # "" /\ mid[2] = NoFile
                   THEN \* line 354 raises: the pass ends there, and with it
                        \* the scheduler thread
                        /\ \E before \in SUBSET (toAdd \ {mid[1]}) :
                               syncing_files' = syncing_files \cup before
                        /\ metadata' = md2
                        /\ status' = IF delFailed # {} THEN "error" ELSE "syncing"
                        /\ spc' = "dead"
                   ELSE /\ syncing_files' = syncing_files \cup toAdd
                        /\ metadata' = md3
                        /\ status' = "synced"
                        /\ spc' = done

\* sync_all, line 310: iterdir raises (the sync folder is gone or unreadable)
\* after line 260 has set the status; the exception ends the scheduler thread
PassScanFails ==
    /\ MayFail
    /\ faults' = Counted(FALSE, "scan")
    /\ status' = "syncing"
    /\ spc' = "dead"
    /\ UNCHANGED <<syncing_files, error_files, printer_files,
                   manual_sync_requested, metadata, disk, devFiles, opFailed,
                   quietPasses>>

\* sync_all from position at: it returns at once while printing_paused is
\* set (position skip), and otherwise runs one pass (position done)
sync_all(at, done, skip) ==
    /\ spc = at
    /\ IF printing_paused
       THEN /\ spc' = skip
            /\ UNCHANGED <<status, syncing_files, error_files, printer_files,
                           manual_sync_requested, metadata, disk, devFiles,
                           opFailed, faults, quietPasses>>
       ELSE Pass(done) \/ PassScanFails
    /\ UNCHANGED <<current_uploading_file, printing_paused, delete_remote, ui, polling,
                   next_ping, wpc, filesToSync, filename, devPrinting,
                   devSteady, prints, probed>>
    /\ UNCHANGED <<noise, sync_folder>>
    /\ UNCHANGED <<uvars, avars, kvars>>

\* the worker slot a new thread takes
FreeWorker == CHOOSE w \in Workers :
    wpc[w] = "idle" /\ \A v \in Workers : wpc[v] = "idle" => w <= v

\* sync_all, line 304: whether upload_files is called
SpawnGuard ==
    /\ syncing_files # {}
    /\ current_uploading_file = ""

\* sync_all, lines 304-305, and upload_files, line 444: a worker thread is
\* started when files are pending and none is being uploaded
Spawn(at, to) ==
    /\ spc = at
    /\ IF SpawnGuard
       THEN /\ \E w \in Workers : wpc[w] = "idle"
            /\ wpc' = [wpc EXCEPT ![FreeWorker] = "start"]
       ELSE UNCHANGED wpc
    /\ spc' = to
    /\ UNCHANGED <<status, syncing_files, error_files, printer_files,
                   current_uploading_file, printing_paused,
                   manual_sync_requested, metadata, delete_remote, ui,
                   polling, next_ping, filesToSync, filename, disk, devFiles,
                   devPrinting, opFailed, devSteady>>
    /\ UNCHANGED <<faults, prints>>
    /\ UNCHANGED <<quietPasses, probed>>
    /\ UNCHANGED <<noise, sync_folder>>
    /\ UNCHANGED <<uvars, avars, kvars>>

\* run, line 214: whether the ping is due; it is on the first iteration
PingDue ==
    /\ spc = "p_due"
    /\ \E due \in (IF next_ping = 0 THEN {TRUE} ELSE BOOLEAN) :
         IF due
         THEN /\ next_ping' = 1
              /\ spc' = IF PingProbes THEN "p_probe" ELSE "p_checks"
         ELSE /\ spc' = "sleep"
              /\ UNCHANGED next_ping
    /\ UNCHANGED <<status, syncing_files, error_files, printer_files,
                   current_uploading_file, printing_paused,
                   manual_sync_requested, metadata, delete_remote, ui,
                   polling, wpc, filesToSync, filename, disk, devFiles,
                   devPrinting, opFailed, devSteady>>
    /\ UNCHANGED <<faults, prints>>
    /\ UNCHANGED <<quietPasses, probed>>
    /\ UNCHANGED <<noise, sync_folder>>
    /\ UNCHANGED <<uvars, avars, kvars>>

\* a faulty variant of lines 221-223: the status is left as it was
ProbeFailedStale ==
    /\ UNCHANGED status
    /\ spc' = "sleep"

\* ping_and_sync, lines 221-223: the probe failed
ProbeFailed ==
    /\ status' = "offline"
    /\ spc' = "sleep"

\* ping_and_sync, line 221: the identification query answers or fails
PingProbe ==
    /\ spc = "p_probe"
    /\ \E ok \in Outcomes :
         /\ faults' = Counted(ok, "probe")
         /\ probed' = ok
         /\ IF ok
            THEN /\ spc' = "p_checks"
                 /\ UNCHANGED <<status>>
            ELSE ProbeFailed
    /\ UNCHANGED prints
    /\ UNCHANGED <<syncing_files, error_files, printer_files,
                   current_uploading_file, printing_paused,
                   manual_sync_requested, metadata, delete_remote, ui,
                   polling, next_ping, wpc, filesToSync, filename, disk,
                   devFiles, devPrinting, opFailed, devSteady>>
    /\ UNCHANGED quietPasses
    /\ UNCHANGED <<noise, sync_folder>>
    /\ UNCHANGED <<uvars, avars, kvars>>

\* ping_and_sync, lines 224-231: the early returns, and the status query sent
PingChecks ==
    /\ spc = "p_checks"
    /\ IF current_uploading_file # ""
       THEN /\ status' = "syncing"
            /\ spc' = "sleep"
       ELSE IF printing_paused
       THEN /\ status' = "printing"
            /\ spc' = "sleep"
       ELSE /\ status' = "synced"
            /\ spc' = "p_status"
    /\ UNCHANGED <<syncing_files, error_files, printer_files,
                   current_uploading_file, printing_paused,
                   manual_sync_requested, metadata, delete_remote, ui,
                   polling, next_ping, wpc, filesToSync, filename, disk,
                   devFiles, devPrinting, opFailed, devSteady>>
    /\ UNCHANGED <<faults, prints>>
    /\ UNCHANGED <<quietPasses, probed>>
    /\ UNCHANGED <<noise, sync_folder>>
    /\ UNCHANGED <<uvars, avars, kvars>>

\* ping_and_sync, lines 231-235: the result of printingStatus
PingStatus ==
    /\ spc = "p_status"
    /\ UNCHANGED prints
    /\ \E r \in PrintingStatusResults :
         /\ faults' = Counted(~StatusFault(r), "status")
         /\ CASE r = "raise" ->
                   \* nothing between line 184 and run catches it
                   /\ spc' = "dead"
                   /\ UNCHANGED <<status, printing_paused, devSteady>>
              [] r = "printing" ->
                   /\ status' = "printing"
                   /\ printing_paused' = TRUE
                   /\ spc' = IF printer_files = {} THEN "p_list" ELSE "p_sync"
                   /\ UNCHANGED devSteady
              [] OTHER ->
                   /\ spc' = "p_sync"
                   /\ devSteady' = IF devPrinting THEN "changed" ELSE devSteady
                   /\ UNCHANGED <<status, printing_paused>>
    /\ UNCHANGED <<syncing_files, error_files, printer_files,
                   current_uploading_file, manual_sync_requested, metadata,
                   delete_remote, ui, polling, next_ping, wpc, filesToSync,
                   filename, disk, devFiles, devPrinting, opFailed>>
    /\ UNCHANGED <<quietPasses, probed>>
    /\ UNCHANGED <<noise, sync_folder>>
    /\ UNCHANGED <<uvars, avars, kvars>>

\* ping_and_sync, lines 235-239: the listing fetched while the device prints
PingList ==
    /\ spc = "p_list"
    /\ \E ok \in Outcomes :
         /\ printer_files' = IF ok THEN Listing ELSE {}
         /\ faults' = Counted(ok, "listing")
    /\ spc' = "p_sync"
    /\ UNCHANGED prints
    /\ UNCHANGED <<status, syncing_files, error_files,
                   current_uploading_file, printing_paused,
                   manual_sync_requested, metadata, delete_remote, ui,
                   polling, next_ping, wpc, filesToSync, filename, disk,
                   devFiles, devPrinting, opFailed,
                   devSteady>>
    /\ UNCHANGED <<quietPasses, probed>>
    /\ UNCHANGED <<noise, sync_folder>>
    /\ UNCHANGED <<uvars, avars, kvars>>

\* run, line 218
Sleep ==
    /\ spc = "sleep"
    /\ spc' = "top"
    /\ UNCHANGED <<status, syncing_files, error_files, printer_files,
                   current_uploading_file, printing_paused,
                   manual_sync_requested, metadata, delete_remote, ui,
                   polling, next_ping, wpc, filesToSync, filename, disk,
                   devFiles, devPrinting, opFailed,
                   devSteady>>
    /\ UNCHANGED <<faults, prints>>
    /\ probed' = FALSE
    /\ UNCHANGED quietPasses
    /\ UNCHANGED <<noise, sync_folder>>
    /\ UNCHANGED <<uvars, avars, kvars>>

(***************************************************************************)
(* upload_files.worker, the upload worker threads                          *)
(***************************************************************************)

\* worker, line 361
WorkerStart(w) ==
    /\ wpc[w] = "start"
    /\ filesToSync' = [filesToSync EXCEPT ![w] = syncing_files]
    /\ wpc' = [wpc EXCEPT ![w] = "pick"]
    /\ UNCHANGED <<status, syncing_files, error_files, printer_files,
                   current_uploading_file, printing_paused,
                   manual_sync_requested, metadata, delete_remote, ui,
                   polling, spc, next_ping, filename, disk, devFiles,
                   devPrinting, opFailed, devSteady>>
    /\ UNCHANGED <<faults, prints>>
    /\ UNCHANGED <<quietPasses, probed>>
    /\ UNCHANGED <<noise, sync_folder>>
    /\ UNCHANGED <<uvars, avars, kvars>>

\* the worker thread ends
WorkerEnds(w) ==
    /\ wpc' = [wpc EXCEPT ![w] = "idle"]
    /\ filesToSync' = [filesToSync EXCEPT ![w] = {}]
    /\ filename' = [filename EXCEPT ![w] = ""]

\* the worker goes on to the next file of filesToSync
WorkerLoops(w) ==
    /\ wpc' = [wpc EXCEPT ![w] = "pick"]
    /\ UNCHANGED <<filesToSync, filename>>

\* worker, lines 435-438: the finally clause
WorkerFinally(w) ==
    /\ current_uploading_file' = ""
    /\ syncing_files' = syncing_files \ {filename[w]}
    /\ status' = "synced"

\* worker, lines 432-434: the except clause; without self.ui line 434 raises
\* in its turn, which ends the thread once the finally clause has run
WorkerExcept(w) ==
    /\ error_files' = error_files \cup {<<"Upload exception", "">>}
    /\ opFailed' = TRUE
    /\ WorkerFinally(w)
    /\ IF ui THEN WorkerLoops(w) ELSE WorkerEnds(w)

\* worker, lines 362-366: the next file of the loop, dropped from the
\* pending set if it is no longer in the folder; the thread ends after the
\* last one
WorkerPick(w) ==
    /\ wpc[w] = "pick"
    /\ IF filesToSync[w] = {}
       THEN /\ WorkerEnds(w)
            /\ UNCHANGED syncing_files
       ELSE \E f \in filesToSync[w] :
            /\ filesToSync' = [filesToSync EXCEPT ![w] = @ \ {f}]
            /\ IF disk[f] = NoFile
               THEN /\ syncing_files' = syncing_files \ {f}
                    /\ UNCHANGED <<wpc, filename>>
               ELSE /\ filename' = [filename EXCEPT ![w] = f]
                    /\ wpc' = [wpc EXCEPT ![w] = "status"]
                    /\ UNCHANGED syncing_files
    /\ UNCHANGED <<status, error_files, printer_files,
                   current_uploading_file, printing_paused,
                   manual_sync_requested, metadata, delete_remote, ui,
                   polling, spc, next_ping, disk, devFiles, devPrinting,
                   opFailed, devSteady>>
    /\ UNCHANGED <<faults, prints>>
    /\ UNCHANGED <<quietPasses, probed>>
    /\ UNCHANGED <<noise, sync_folder>>
    /\ UNCHANGED <<uvars, avars, kvars>>

\* worker, lines 367-382: the status query before the upload
WorkerStatus(w) ==
    /\ wpc[w] = "status"
    /\ UNCHANGED prints
    /\ \E r \in PrintingStatusResults :
         /\ faults' = Counted(~StatusFault(r), "status")
         /\ CASE r = "raise" ->
                   /\ WorkerExcept(w)
                   /\ UNCHANGED printing_paused
              [] r = "printing" ->
                   \* the upload is deferred: return, through the finally clause
                   /\ printing_paused' = TRUE
                   /\ WorkerFinally(w)
                   /\ WorkerEnds(w)
                   /\ UNCHANGED <<error_files, opFailed>>
              [] OTHER ->
                   /\ printing_paused' = FALSE
                   /\ status' = "syncing"
                   /\ current_uploading_file' = filename[w]
                   /\ wpc' = [wpc EXCEPT ![w] = "stable"]
                   /\ UNCHANGED <<syncing_files, error_files, opFailed,
                                  filesToSync, filename>>
    /\ UNCHANGED <<printer_files, manual_sync_requested, metadata,
                   delete_remote, ui, polling, spc, next_ping, disk,
                   devFiles, devPrinting, devSteady>>
    /\ UNCHANGED <<quietPasses, probed>>
    /\ UNCHANGED <<noise, sync_folder>>
    /\ UNCHANGED <<uvars, avars, kvars>>

\* worker, lines 384-412: the wait for a stable size. The size is stable
\* (only a file that exists can be), the progress poller is started and
\* uploadFile is called, which sends M28; or the 60 s pass without a stable
\* size: status error, then return through the finally clause
WorkerStable(w) ==
    /\ wpc[w] = "stable"
    /\ UNCHANGED prints
    /\ \E stable \in (IF disk[filename[w]] = NoFile THEN {FALSE} ELSE Outcomes) :
         /\ faults' = Counted(stable \/ disk[filename[w]] = NoFile,
                              "unstable")
         /\ IF stable
            THEN /\ polling' = (polling \/ ui)
                 /\ wpc' = [wpc EXCEPT ![w] = "upload"]
                 /\ UNCHANGED <<status, syncing_files, current_uploading_file,
                                filesToSync, filename>>
            ELSE /\ WorkerFinally(w)
                 /\ WorkerEnds(w)
                 /\ UNCHANGED polling
    /\ UNCHANGED <<error_files, printer_files, printing_paused,
                   manual_sync_requested, metadata, delete_remote, ui, spc,
                   next_ping, disk, devFiles, devPrinting, opFailed, devSteady>>
    /\ UNCHANGED <<quietPasses, probed>>
    /\ UNCHANGED <<noise, sync_folder>>
    /\ UNCHANGED <<uvars, avars, kvars>>

\* The entries of error_files are the messages handle_error is given (line
\* 447), a pair of what failed and the file named in the message ("" when
\* the message names none); NameOf(f) is the entry that is the bare name f
NameOf(f) == <<"", f>>

\* worker, lines 429-430: the name of the uploaded file is taken out of
\* error_files if it is an entry
WithoutName(errors, f) ==
    IF NameOf(f) \in errors THEN errors \ {NameOf(f)} ELSE errors

\* worker, lines 412-438: uploadFile returns a result without an error
\* token (ok), one with an error token (error), or raises (raise); left is
\* what the device holds of the file after a transfer that did not complete
WorkerUpload(w) ==
    /\ wpc[w] = "upload"
    /\ LET f == filename[w] IN
       \E r \in {"ok"} \cup (IF MayFail THEN {"error", "raise"} ELSE {}),
          left \in {devFiles[f], Unknown} :
         /\ faults' = Counted(r = "ok", "upload")
         /\ CASE r = "ok" /\ ui /\ disk[f] # NoFile ->
                   \* lines 418-431
                   /\ metadata' = [metadata EXCEPT ![f] = disk[f]]
                   /\ printer_files' = printer_files \cup {f}
                   /\ devFiles' = [devFiles EXCEPT ![f] = disk[f]]
                   /\ error_files' = WithoutName(error_files, f)
                   /\ WorkerFinally(w)
                   /\ WorkerLoops(w)
                   /\ UNCHANGED opFailed
              [] r = "ok" ->
                   \* line 418 raises without self.ui, line 420 when the file
                   \* is gone
                   /\ devFiles' = [devFiles EXCEPT ![f] =
                                     IF disk[f] # NoFile THEN disk[f] ELSE Unknown]
                   /\ WorkerExcept(w)
                   /\ UNCHANGED <<metadata, printer_files>>
              [] r = "error" /\ ui ->
                   \* lines 415-416
                   /\ error_files' = error_files \cup {<<"Upload error", "">>}
                   /\ opFailed' = TRUE
                   /\ devFiles' = [devFiles EXCEPT ![f] = left]
                   /\ WorkerFinally(w)
                   /\ WorkerLoops(w)
                   /\ UNCHANGED <<metadata, printer_files>>
              [] OTHER ->
                   /\ devFiles' = [devFiles EXCEPT ![f] = left]
                   /\ WorkerExcept(w)
                   /\ UNCHANGED <<metadata, printer_files>>
    /\ UNCHANGED <<printing_paused, manual_sync_requested, delete_remote, ui,
                   polling, spc, next_ping, disk, devPrinting,
                   devSteady, prints>>
    /\ quietPasses' = IF devFiles' = devFiles THEN quietPasses ELSE 0
    /\ UNCHANGED probed
    /\ UNCHANGED <<noise, sync_folder>>
    /\ UNCHANGED <<uvars, avars, kvars>>

(***************************************************************************)
(* SyncUI: the progress poller and the user                                *)
(***************************************************************************)

\* SyncUI.poll_progress: while printing_paused is set the device is asked
\* for its status, and the flag is cleared when it does not report a print;
\* the callback is scheduled again while a print or an upload goes on
poll_progress ==
    /\ ui
    /\ polling
    /\ IF printing_paused
       THEN \E r \in PrintingStatusResults :
              /\ printing_paused' = (r # "notprinting")
              /\ faults' = Counted(~StatusFault(r), "status")
       ELSE UNCHANGED <<printing_paused, faults>>
    /\ UNCHANGED prints
    /\ polling' = (printing_paused' \/ current_uploading_file # "")
    /\ UNCHANGED <<status, syncing_files, error_files, printer_files,
                   current_uploading_file, manual_sync_requested, metadata,
                   delete_remote, ui, spc, next_ping, wpc, filesToSync,
                   filename, disk, devFiles, devPrinting, opFailed, devSteady>>
    /\ UNCHANGED <<quietPasses, probed>>
    /\ UNCHANGED <<noise, sync_folder>>
    /\ UNCHANGED <<uvars, avars, kvars>>

\* SyncUI.show_window, lines 783-784: the user opens the window during a
\* print, which starts the poller
show_window ==
    /\ ui
    /\ printing_paused
    /\ ~polling
    /\ polling' = TRUE
    /\ UNCHANGED <<status, syncing_files, error_files, printer_files,
                   current_uploading_file, printing_paused,
                   manual_sync_requested, metadata, delete_remote, ui, spc,
                   next_ping, wpc, filesToSync, filename, disk, devFiles,
                   devPrinting, opFailed, devSteady>>
    /\ UNCHANGED <<faults, prints>>
    /\ UNCHANGED <<quietPasses, probed>>
    /\ UNCHANGED <<noise, sync_folder>>
    /\ UNCHANGED <<uvars, avars, kvars>>

\* the buttons "Manual Sync Now" and "Sync Now"
UserSync ==
    /\ ~manual_sync_requested
    /\ manual_sync
    /\ UNCHANGED <<status, syncing_files, error_files, printer_files,
                   current_uploading_file, printing_paused, metadata,
                   delete_remote, ui, polling, spc, next_ping, wpc,
                   filesToSync, filename, disk, devFiles, devPrinting,
                   opFailed, devSteady>>
    /\ UNCHANGED <<faults, prints>>
    /\ UNCHANGED <<quietPasses, probed>>
    /\ UNCHANGED <<noise, sync_folder>>
    /\ UNCHANGED <<uvars, avars, kvars>>

(***************************************************************************)
(* The specifications                                                      *)
(***************************************************************************)

\* the scheduler thread
Scheduler ==
    \/ RunTop
    \/ ManualProbe
    \/ sync_all("m_sync", "m_spawn", "p_due")
    \/ Spawn("m_spawn", "p_due")
    \/ PingDue
    \/ PingProbe
    \/ PingChecks
    \/ PingStatus
    \/ sync_all("p_sync", "p_spawn", "sleep")
    \/ Spawn("p_spawn", "sleep")
    \/ Sleep

\* the upload worker threads
Worker ==
    \/ \E w \in Workers : WorkerStart(w)
    \/ \E w \in Workers : WorkerPick(w)
    \/ \E w \in Workers : WorkerStatus(w)
    \/ \E w \in Workers : WorkerStable(w)
    \/ \E w \in Workers : WorkerUpload(w)

\* Spec: files are written into the sync folder, exchanges with the device
\* fail, the device does not print and the remote delete is switched off
ENext ==
    \/ \E f \in SpecFiles : FsWrite(f)
    \/ UserSync
    \/ setup_ui
    \/ Scheduler
    \/ Worker
    \/ poll_progress

\* SpecPrint: the device prints; files are written into the sync folder, no
\* exchange fails
PNext ==
    \/ \E f \in SpecFiles : FsWrite(f)
    \/ DevStartPrint
    \/ DevEndPrint
    \/ setup_ui
    \/ Scheduler
    \/ PingList
    \/ Worker
    \/ poll_progress
    \/ show_window

\* SpecRemove: the engine starts with one model file in the sync folder; the
\* file is removed, the remote delete is switched on, exchanges and reads of
\* files fail, the device does not print
RNext ==
    \/ \E f \in SpecFiles : FsDelete(f)
    \/ setup_ui
    \/ Scheduler
    \/ Worker
    \/ poll_progress

\* the state of the engine while SpecUpload runs
EIdle ==
    /\ EInit /\ disk = EmptyFolder
    /\ delete_remote = FALSE /\ faults = <<>> /\ prints = 0

\* the state of uploadFile while the engine runs
UIdle == UInit /\ fsize = 0

UNext ==
    \/ U_Begin
    \/ U_Stat
    \/ U_Send
    \/ U_Recv
    \/ U_Verify
    \/ U_VerifyReply
    \/ U_Final

Init ==
    /\ EInit /\ disk = EmptyFolder
    /\ delete_remote = FALSE /\ faults = <<>> /\ prints = MaxPrints
    /\ UIdle
    /\ AIdle
    /\ KIdle

Spec == Init /\ [][ENext]_vars

PInit ==
    /\ EInit /\ disk = EmptyFolder
    /\ delete_remote = FALSE /\ faults = NoFaults /\ prints = 0
    /\ UIdle
    /\ AIdle
    /\ KIdle

SpecPrint == PInit /\ [][PNext]_vars

\* the engine with a user who changes the sync folder; no exchange fails
DNext ==
    \/ \E f \in SpecFiles : FsWrite(f)
    \/ change_sync_folder
    \/ setup_ui
    \/ Scheduler
    \/ Worker
    \/ poll_progress

DInit ==
    /\ EInit /\ disk = EmptyFolder
    /\ delete_remote = FALSE /\ faults = NoFaults /\ prints = MaxPrints
    /\ UIdle
    /\ AIdle
    /\ KIdle

SpecFolder == DInit /\ [][DNext]_vars

\* a function of the program applied once to arguments of a bounded set
KNext ==
    \/ K_Chunk
    \/ K_IsFileModified
    \/ K_Scan

FnInit == KInit /\ EIdle /\ UIdle /\ AIdle

SpecFn == FnInit /\ [][KNext]_vars

\* the engine with a watcher that reports model files written and other
\* entries of the folder; no exchange fails
WNext ==
    \/ \E f \in SpecFiles : FsWrite(f)
    \/ \E e \in OtherEvents : FsOther(e)
    \/ setup_ui
    \/ Scheduler
    \/ Worker
    \/ poll_progress

WInit ==
    /\ EInit /\ disk = EmptyFolder
    /\ delete_remote = FALSE /\ faults = NoFaults /\ prints = MaxPrints
    /\ UIdle
    /\ AIdle
    /\ KIdle

SpecWatch == WInit /\ [][WNext]_vars

RInit ==
    /\ EInit /\ disk = OneFile
    /\ delete_remote = TRUE /\ faults = <<>> /\ prints = MaxPrints
    /\ UIdle
    /\ AIdle
    /\ KIdle

SpecRemove == RInit /\ [][RNext]_vars

\* SpecPending: the engine starts with both model files in the sync folder
\* and runs before the window is set up; exchanges and reads of files fail,
\* the device does not print and the remote delete is switched off
FNext ==
    \/ Scheduler
    \/ Worker

FInit ==
    /\ EInit /\ disk = FullFolder
    /\ delete_remote = FALSE /\ faults = <<>> /\ prints = MaxPrints
    /\ UIdle
    /\ AIdle
    /\ KIdle

SpecPending == FInit /\ [][FNext]_vars

\* SpecPurge: the engine starts with one model file in the sync folder; the
\* file is removed, exchanges and reads of files fail, the device does not
\* print and the remote delete is switched off
GNext ==
    \/ \E f \in SpecFiles : FsDelete(f)
    \/ setup_ui
    \/ Scheduler
    \/ Worker
    \/ poll_progress

GInit ==
    /\ EInit /\ disk = OneFile
    /\ delete_remote = FALSE /\ faults = <<>> /\ prints = MaxPrints
    /\ UIdle
    /\ AIdle
    /\ KIdle

SpecPurge == GInit /\ [][GNext]_vars

UploadInit == UInit /\ EIdle /\ AIdle /\ KIdle

SpecUpload == UploadInit /\ [][UNext]_vars

\* uploadFile against a device that answers every chunk, of a file that may
\* be truncated during the transfer
UProgram ==
    \/ U_Begin
    \/ U_Stat
    \/ U_Send
    \/ U_Answered
    \/ U_Verify
    \/ U_VerifyReply
    \/ U_Final

TNext ==
    \/ UProgram
    \/ U_Truncate

\* the thread that runs uploadFile is not held up for ever
SpecTransfer == UploadInit /\ [][TNext]_vars /\ WF_vars(UProgram)

ANext ==
    \/ A_Send
    \/ A_StatusQuery
    \/ A_StatusAbsorb
    \/ A_ListQuery
    \/ A_ListLine
    \/ A_ListEnd

ApiInit == AInit /\ EIdle /\ UIdle /\ KIdle

SpecApi == ApiInit /\ [][ANext]_vars

CNext ==
    \/ A_StatusQuery
    \/ A_StatusAbsorb
    \/ printingPercent
    \/ removeCardFile

FacadeInit == CInit /\ EIdle /\ UIdle /\ KIdle

SpecFacade == FacadeInit /\ [][CNext]_vars

(***************************************************************************)
(* The properties                                                          *)
(***************************************************************************)

\* the workers between the begin-upload command and the return of uploadFile
InFlight == {w \in Workers : wpc[w] = "upload"}

\* C1: at most one upload transfer is in flight at any time: in every
\* reachable state at most one worker is between the begin-upload command and
\* the return of uploadFile
C1_OneTransferInFlight == Cardinality(InFlight) <= 1

\* C2: the size-verify command of stage 3 carries the total length recorded
\* at the start of the transfer
C2_VerifyCarriesRecordedLength ==
    sent.cmd = "M4012" => sent.arg = recorded

\* a pass of sync_all runs to its end in this step
PassCompletes ==
    /\ spc \in {"m_sync", "p_sync"}
    /\ spc' \in {"m_spawn", "p_spawn"}

\* file f is in the folder, the device holds what the last successful upload
\* of f left there, and the file differs from it in hash or modification time
ChangedSinceUpload(f) ==
    /\ disk[f] # NoFile
    /\ devFiles[f] \notin {NoFile, Unknown}
    /\ \/ disk[f].checksum # devFiles[f].checksum
       \/ disk[f].mtime # devFiles[f].mtime

\* C3: a pass puts into the pending set every local file that is in the
\* remote listing and has changed since its last successful upload
C3_ModifiedFileIsPending ==
    [][PassCompletes =>
         \A f \in Files :
            (ChangedSinceUpload(f) /\ f \in printer_files') => f \in syncing_files']_vars

\* the scheduler sleeps and no worker thread is alive: the last pass and its
\* uploads have finished
Quiescent == spc = "sleep" /\ NoWorkerActive

\* an upload or a remote delete is the last thing that failed, and no pass
\* has begun since
FileOperationFailed ==
    /\ opFailed
    /\ faults # <<>>
    /\ faults[Len(faults)] \in {"upload", "delete"}

\* C4: when a file operation of a pass failed (an upload, a remote delete),
\* the status is error once the pass and its uploads have finished
C4_ErrorAfterFailedOperation ==
    (Quiescent /\ FileOperationFailed) => status = "error"

\* the probe of ping_and_sync fails in this step
ProbeFails == spc = "p_probe" /\ spc' = "sleep"

\* a tick of ping_and_sync that ran its pass ends in this step, with no
\* failed operation since the pass began and no upload going on
TickEndsClean ==
    /\ spc = "p_spawn"
    /\ spc' = "sleep"
    /\ ~opFailed
    /\ current_uploading_file = ""

PassRuns ==
    /\ spc \in {"m_sync", "p_sync"}
    /\ spc' \in {"m_spawn", "p_spawn", "dead"}

\* C6: no pass runs while the device has a print job, one it has had since
\* the iteration of the scheduler began
C6_NoPassWhilePrinting ==
    [][PassRuns => devSteady # "printing"]_vars

\* C7: a tick during which the device has no print job does not end in the
\* status printing: the print state is checked again in the tick
C7_TickRechecksPrintState ==
    [][(spc = "p_checks" /\ spc' = "sleep" /\ devSteady = "idle")
          => status' # "printing"]_vars

\* C8: the scheduler loop is never ended by an exception
C8_SchedulerNeverDies == spc # "dead"

\* C9: uploadFile does not raise in stage 2
C9_TransferNeverRaises == ~(upc = "raised" /\ exc = "transfer")

\* a resend reply is processed in this step
ResendStep == upc = "recv" /\ s'.kind = "resend" /\ upc' = "loop"

\* the first packet after a resend reply is sent in this step
SendAfterResend ==
    upc = "loop" /\ upc' = "recv" /\ s.kind = "resend" /\ send

\* C10: on the reply resend <n>,offset error:<k> the cursor becomes k,
\* remaining becomes total - k, the retry counter grows by one, and the next
\* packet sent carries offset k
C10_ResendRecovery ==
    [][/\ ResendStep =>
            /\ offs' = s'.off
            /\ remaining' = recorded - s'.off
            /\ retr' = retr + 1
       /\ SendAfterResend =>
            /\ sent'.cmd = "chunk"
            /\ sent'.off = s.off
            /\ remaining = recorded - s.off]_vars

\* C10, the case: a 10000-byte file, resend at 4096, the next packet sent
C10_Witness ==
    /\ recorded = 10000
    /\ s = [kind |-> "resend", off |-> 4096]
    /\ upc = "recv"
    /\ sent.cmd = "chunk"
    /\ sent.off = 4096
    /\ remaining = 5904
    /\ retr = 1

BothFail == ~Arrives(script) /\ ~Arrives(After(script))
FirstReceived == IF Arrives(script) THEN Head(script) ELSE Head(After(script))

\* C13: __sendRecieveSingle__ transmits the command once and receives at most
\* twice; it returns the first datagram received, and when both receives
\* fail the transport failure (the timeout of the socket) reaches the caller
C13_SendPropagatesTransportFailure ==
    (called = "send" /\ apc \in {"returned", "raised"}) =>
        /\ sendtos = 1
        /\ recvs <= 2
        /\ apc = "returned" => (~BothFail /\ returned = FirstReceived)
        /\ apc = "raised" => (BothFail /\ raised = "timeout")

\* C14: printingStatus never raises; when the status reply or the trailing
\* acknowledgment is lost, or the reply is empty, it returns Not Printing
C14_PrintingStatusNeverRaises ==
    called = "printingStatus" =>
        /\ apc # "raised"
        /\ (apc = "returned" /\ split(string) = <<>>) =>
               returned = <<"Not Printing">>

\* the lines getCardFiles has to report for the datagrams it met: those up
\* to the end line that hold a recognized extension and a size other than 0
RECURSIVE Listed(_)
Listed(box) ==
    IF box = <<>> \/ stripFormatting(Head(box)) = stripFormatting(EndFileList)
    THEN <<>>
    ELSE LET line == stripFormatting(Head(box))
         IN  IF /\ HasExtension(line)
                /\ stripSpaceFromBack(line)[2] # <<"0">>
             THEN <<stripSpaceFromBack(line)>> \o Listed(Tail(box))
             ELSE Listed(Tail(box))

\* C15: getCardFiles returns exactly the lines before the end line that have
\* a recognized extension and a size token other than 0
C15_ListingExcludesZeroSize ==
    (called = "getCardFiles" /\ apc = "returned") => returned = Listed(script)

\* a worker thread is started in this step
WorkerSpawned == \E w \in Workers : wpc[w] = "idle" /\ wpc'[w] = "start"

\* a pass runs to its end in this step, the folder and the device are as
\* they were when the pass before it ended, and they do not change in it
SecondPass ==
    /\ PassCompletes
    /\ quietPasses >= 1
    /\ disk' = disk

\* the pass that ended last was such a second pass, nothing has changed
\* since, and sync_all is at its line 304
AfterSecondPass ==
    /\ spc \in {"m_spawn", "p_spawn"}
    /\ quietPasses = 2

\* C16: the second of two consecutive passes with no change of the folder or
\* of the device between them performs no remote delete and no upload: it
\* deletes nothing on the device, adds nothing to the pending set and starts
\* no upload worker
C16_SecondPassIdempotent ==
    [][/\ SecondPass =>
            /\ devFiles' = devFiles
            /\ syncing_files' = syncing_files
       /\ AfterSecondPass => ~WorkerSpawned]_vars

\* an upload that an earlier pass started is still running: a worker is
\* inside uploadFile
UploadsRunning == InFlight # {}

\* C17: passes are serialized, uploads included: no pass runs its scan, its
\* listing or its deletes while the uploads that an earlier pass started are
\* still running
C17_PassesSerializedWithUploads ==
    [][PassRuns => ~UploadsRunning]_vars

\* the scheduler leaves line 207 by the manual-sync branch in this step
ManualTrigger == spc = "top" /\ spc' \in {"m_probe", "m_sync"}

\* the scheduler leaves line 207 in this step
TickBegins == spc = "top" /\ spc' # "top"

\* C18: manual-sync signals are held in one boolean.  A request that is
\* pending stays pending whatever signals follow, until the scheduler takes
\* the manual-sync branch; the tick that finds it pending takes the branch,
\* once, and clears it; no tick takes the branch without a pending request
C18_ManualSyncCoalesced ==
    [][/\ (manual_sync_requested /\ ~manual_sync_requested') => ManualTrigger
       /\ ManualTrigger => (manual_sync_requested /\ ~manual_sync_requested')
       /\ (TickBegins /\ manual_sync_requested) => ManualTrigger]_vars

\* C18, the case: the manual-sync branch has run its pass and sync_all is at
\* its line 304, and a signal raised since the branch cleared the flag (a
\* write into the folder while the pass ran) is pending
C18_Witness ==
    /\ spc = "m_spawn"
    /\ manual_sync_requested
    /\ disk["a.ctb"].mtime = MaxMtime

\* the files that have a fingerprint, and the model files in the folder
Keys(md) == {f \in Files : md[f] # NoFile}
Present(dk) == {f \in Files : dk[f] # NoFile}

\* the scan of the pass of this step could not read a file of the folder
ScanSkipped ==
    /\ faults' # faults
    /\ faults'[Len(faults')] = "unreadable"

StableWaitTimesOut(w) == wpc[w] = "stable" /\ wpc'[w] \notin {"stable", "upload"}

\* C20: a pending file whose size does not become stable within the ceiling
\* is marked Error and skipped: when the wait ends at the ceiling the status
\* is error, the file is not uploaded and is not taken up again by this
\* worker, and the worker goes on to the pending files that remain
C20_UnstableFileSkipped ==
    [][\A w \in Workers :
          StableWaitTimesOut(w) =>
             /\ status' = "error"
             /\ devFiles' = devFiles
             /\ filename[w] \notin filesToSync'[w]
             /\ filesToSync[w] # {} =>
                   (wpc'[w] = "pick" /\ filesToSync'[w] = filesToSync[w])]_vars

\* uploadFile, called by worker w, returns an error result or raises in this
\* step
UploadFails(w) ==
    /\ wpc[w] = "upload"
    /\ faults' # faults
    /\ faults'[Len(faults')] = "upload"

\* the error set holds the record of a failed upload
UploadFailureRecorded(errors) ==
    \E e \in errors : e[1] \in {"Upload error", "Upload exception"}

\* C21: when the upload of a file fails, by an error result or an exception,
\* the failure is recorded in the error set and the worker goes on to the
\* pending files that remain: none of them is dropped
C21_OneBadFileNeverBlocksOthers ==
    [][\A w \in Workers :
          UploadFails(w) =>
             /\ UploadFailureRecorded(error_files')
             /\ filesToSync[w] # {} =>
                   (wpc'[w] = "pick" /\ filesToSync'[w] = filesToSync[w])]_vars

\* the device drops file f in this step: a remote delete of f was sent and
\* carried out
RemoteDeleted(f) == devFiles[f] # NoFile /\ devFiles'[f] = NoFile

\* C22: a pass sends a remote delete for a file only if the policy is on,
\* the file is in the listing of that pass and no file of that name is in
\* the sync folder; so none is sent with the policy off or after a listing
\* that failed
C22_RemoteDeleteOnlyIfAbsentLocally ==
    [][\A f \in Files :
          RemoteDeleted(f) =>
             /\ PassRuns
             /\ delete_remote
             /\ f \in printer_files'
             /\ disk[f] = NoFile]_vars

\* the upload of the file of worker w succeeds in this step: uploadFile
\* returned without an error token and lines 418-431 ran
UploadSucceeds(w) ==
    /\ wpc[w] = "upload"
    /\ wpc'[w] = "pick"
    /\ faults' = faults
    /\ disk[filename[w]] # NoFile
    /\ metadata'[filename[w]] = disk[filename[w]]
    /\ devFiles'[filename[w]] = disk[filename[w]]
    /\ filename[w] \in printer_files'

\* C23: the entry that a failed upload left in the error set is removed by
\* the next successful upload of the file: after a successful upload of the
\* one file of the folder the error set holds no record of a failed upload
C23_ErrorClearedBySuccessfulUpload ==
    [][\A w \in Workers :
          UploadSucceeds(w) => ~UploadFailureRecorded(error_files')]_vars

\* C24: a pass, of the manual-sync branch or of the periodic tick, runs only
\* after the identification query of ping_printer was answered in the same
\* iteration of the scheduler
C24_PassPrecededByProbe ==
    [][PassRuns => probed]_vars

\* a reply of the transfer loop is processed in this step (lines 251-271)
\* without raising
ReplyProcessed == upc = "recv" /\ upc' = "loop"

\* the reply processed in this step is an ok, of the given kind otherwise
Processed(kind) == ReplyProcessed /\ s'.kind = kind

\* C25: after every processed reply of the transfer loop, remaining is the
\* total length less the send cursor, whatever the replies were; an ok to a
\* chunk just sent moves the cursor forward by the length of that chunk and
\* lowers remaining by as much
C25_RemainingIsTotalLessCursor ==
    [][/\ ReplyProcessed => remaining' = recorded - offs'
       /\ (Processed("ok") /\ send) =>
            /\ offs' = offs + sent.len
            /\ remaining' = remaining - sent.len]_vars

\* C25, the case: after a resend, oks (one of them to the short last chunk's
\* predecessor) and a garbage reply, the cursor is at 9216 of 10000 bytes
C25_Witness ==
    /\ upc = "loop"
    /\ recorded = 10000
    /\ retr = 1
    /\ s.kind = "garbage"
    /\ offs = 9216
    /\ remaining = 784

\* the transfer loop comes round (lines 240-250) after the reply that was
\* neither ok nor resend
RoundAfterGarbage == upc = "loop" /\ upc' = "recv" /\ s.kind = "garbage"

\* C26: after a reply that is neither ok nor resend the chunk is sent again
\* as it was (same offset, same payload), and the cursor, remaining and the
\* retry counter are as they were
C26_GarbageResendsSameChunk ==
    [][/\ Processed("garbage") => UNCHANGED <<offs, remaining, retr>>
       /\ RoundAfterGarbage =>
            /\ send
            /\ sent' = sent]_vars

\* the watcher's callback runs in this step for the event e: a model file is
\* written or removed outside a pass, or e is added to noise
Delivered(e) ==
    \/ /\ spc' = spc
       /\ \E f \in Files : disk'[f] # disk[f] /\ e = FileEvent(f)
    \/ noise' = Append(noise, e)

\* the extension of the path of e is one the engine synchronizes, and e is
\* not the event of a directory
Recognized(e) ==
    /\ e.src_path \in Files \cup {"A.CTB"}
    /\ ~e.is_directory

\* C28: the callback of the watcher exchanges nothing with the device and
\* does not wait for a pass to end; it changes nothing of the engine but the
\* manual-sync flag, which it sets for a file of a recognized extension and
\* leaves alone for a directory and for any other file
C28_WatcherOnlySetsFlag ==
    [][\A e \in OtherEvents \cup {FileEvent(f) : f \in Files} :
          Delivered(e) =>
             /\ UNCHANGED <<devFiles, devPrinting, faults, printer_files>>
             /\ UNCHANGED <<spc, wpc, status, syncing_files, error_files,
                            metadata, current_uploading_file, printing_paused,
                            filesToSync, filename>>
             /\ IF Recognized(e) THEN manual_sync_requested'
                ELSE UNCHANGED manual_sync_requested]_vars

\* C28, the case: the watcher reported a directory whose name ends in .goo
\* and a text file while a pass was about to begin, and the flag stayed
\* clear; it then reported a.ctb written during the upload of its first
\* version, and the flag is set
C28_Witness ==
    /\ noise = <<Event("old.goo"), Event("notes.txt")>>
    /\ disk["a.ctb"].mtime = 2
    /\ manual_sync_requested
    /\ \E w \in Workers : wpc[w] = "upload"

\* bit k of the byte b
Bit(b, k) == (b \div (2 ^ k)) % 2

\* bit k of the XOR of the bytes, in whatever order they are taken: whether
\* the bytes with that bit set are odd in number
OddBit(bytes, k) == Cardinality({i \in DOMAIN bytes : Bit(bytes[i], k) = 1}) % 2

\* the XOR of the bytes, bit by bit
XorOfAll(bytes) ==
    OddBit(bytes, 0) + 2 * OddBit(bytes, 1) + 4 * OddBit(bytes, 2)
    + 8 * OddBit(bytes, 3) + 16 * OddBit(bytes, 4) + 32 * OddBit(bytes, 5)
    + 64 * OddBit(bytes, 6) + 128 * OddBit(bytes, 7)

\* C27: a chunk datagram is the payload, which is the bytes of the file from
\* the cursor on, 1280 of them or all that are left, then the cursor in four
\* bytes with the least significant first, then one byte that is the XOR of
\* all payload and offset bytes, then the byte 0x83
C27_ChunkPacketLayout ==
    (kfn = "chunk" /\ kpc = "returned") =>
        LET n == Len(kvalue) - 6
            left == IF kargs.size > kargs.offs THEN kargs.size - kargs.offs
                    ELSE 0
        IN  /\ n >= 0
            /\ n <= 1280
            /\ n <= left
            /\ n = 1280 \/ n = left
            /\ \A j \in 1..n : kvalue[j] = FileByte(kargs.seed, kargs.offs + j - 1)
            /\ \A j \in (n + 1)..(n + 4) : kvalue[j] \in 0..255
            /\ kvalue[n + 1] + 256 * kvalue[n + 2] + 65536 * kvalue[n + 3]
                  + 16777216 * kvalue[n + 4] = kargs.offs
            /\ kvalue[n + 5] = XorOfAll(SubSeq(kvalue, 1, n + 4))
            /\ kvalue[n + 6] = 131

\* C27, the case: the last five bytes of a file of 16909065 bytes, sent from
\* the cursor 16909060 = 0x01020304
C27_Witness ==
    /\ kfn = "chunk"
    /\ kpc = "returned"
    /\ kargs.size = 16909065
    /\ kargs.offs = 16909060
    /\ kargs.seed = 7
    /\ Len(kvalue) = 11
    /\ SubSeq(kvalue, 6, 9) = <<4, 3, 2, 1>>
    /\ kvalue[11] = 131

\* C29: is_file_modified returns true when no fingerprint is stored for the
\* file, when the hash of the scanned entry is not the stored hash and when
\* the modification time of the file on disk is not the stored one, and
\* false otherwise
C29_ModifiedIffThreeReasons ==
    (kfn = "is_file_modified" /\ kpc = "returned") =>
        (kvalue <=> ~(/\ kargs.stored # NoFile
                      /\ kargs.local.checksum = kargs.stored.checksum
                      /\ kargs.now # NoFile
                      /\ kargs.now.mtime = kargs.stored.mtime))

\* C29, the case: the hash is the stored one and the file on disk has a
\* later modification time than the stored one: modified
C29_Witness ==
    /\ kfn = "is_file_modified"
    /\ kpc = "returned"
    /\ kargs.stored = [mtime |-> 1, size |-> 1, checksum |-> 2]
    /\ kargs.local.checksum = 2
    /\ kargs.now # NoFile
    /\ kargs.now.mtime = 2
    /\ kvalue = TRUE

\* C30: scan_local_files computes the hash of a file when no hash is stored
\* for it or when its size or modification time is not the stored one, and
\* then records what it found; otherwise it reads no byte of the file: it
\* returns the stored hash, leaves the fingerprint as it is, and the file
\* is not taken for modified even when its bytes have changed
C30_HashOnlyWhenStatDiffers ==
    (kfn = "scan_local_files" /\ kpc = "returned") =>
        LET stored == kargs.stored
            file == kargs.file
            differs == \/ stored.checksum = 0
                       \/ stored.size # file.size
                       \/ stored.mtime # file.mtime
        IN  /\ differs =>
                 /\ kvalue.files_meta = file
                 /\ kvalue.metadata = file
            /\ ~differs =>
                 /\ kvalue.files_meta.checksum = stored.checksum
                 /\ kvalue.metadata = stored
                 /\ ~kvalue.modified

\* C30, the case: the bytes of the file changed (hash 2, stored hash 1)
\* while its size and modification time are the stored ones
C30_Witness ==
    /\ kfn = "scan_local_files"
    /\ kpc = "returned"
    /\ kargs.stored = [mtime |-> 2, size |-> 1, checksum |-> 1]
    /\ kargs.file = [mtime |-> 2, size |-> 1, checksum |-> 2]
    /\ kvalue.files_meta.checksum = 1
    /\ ~kvalue.modified

\* the file f leaves the pending set in this step
Leaves(f) == f \in syncing_files /\ f \notin syncing_files'

\* uploadFile ends for f in this step, with a result or by raising
UploadEnds(f) ==
    \E w \in Workers :
        filename[w] = f /\ wpc[w] = "upload" /\ wpc'[w] # "upload"

\* the attempt on f fails before the transfer in this step: the status
\* query raises or the file does not become stable
AttemptFails(f) ==
    \E w \in Workers :
        /\ filename[w] = f
        /\ wpc[w] \in {"status", "stable"}
        /\ faults' # faults

\* C31: a file leaves the pending set only when its upload has succeeded or
\* failed or when it is no longer in the folder; a file whose upload is put
\* off because the device prints stays pending
C31_PendingUntilDoneOrGone ==
    [][\A f \in Files :
          Leaves(f) => UploadEnds(f) \/ AttemptFails(f) \/ disk[f] = NoFile]_vars

\* the pass of this step adds f to the pending set
AddedByPass(f) == PassRuns /\ f \notin syncing_files /\ f \in syncing_files'

\* the device stores f as it is in the folder, the fingerprint stored for f
\* is that of the file in the folder, and f is not written during the step
StoredAndUnchanged(f) ==
    /\ disk[f] # NoFile
    /\ disk'[f] = disk[f]
    /\ devFiles[f] = disk[f]
    /\ metadata[f] = disk[f]

\* C32: a pass makes a file pending only if the device does not store it or
\* its fingerprint has changed; a file the device stores and that has not
\* changed in the folder is not made pending, whatever the listing query
\* of the pass returned
C32_UnchangedStoredFileNotPending ==
    [][\A f \in Files : AddedByPass(f) => ~StoredAndUnchanged(f)]_vars

\* a model file of the sync folder is written or removed in this step
FolderEvent(f) == disk'[f] # disk[f] /\ sync_folder' = sync_folder

\* C33: every write and every removal of a model file in the folder the
\* engine synchronizes raises the manual-sync flag, also after the user has
\* changed the folder
C33_FolderEventRaisesSignal ==
    [][\A f \in Files : FolderEvent(f) => manual_sync_requested']_vars

\* the scheduler thread exchanges datagrams with the device in this step:
\* the identification query, the status query, or the listing and the
\* deletes of a pass
SchedulerExchanges ==
    \/ PassRuns
    \/ spc \in {"m_probe", "p_probe", "p_status", "p_list"} /\ spc' # spc

\* the worker v exchanges datagrams with the device in this step: its
\* status query or its transfer
WorkerExchanges(v) == wpc[v] \in {"status", "upload"} /\ wpc'[v] # wpc[v]

\* C34: while the transfer of a worker is in flight no other thread sends
\* to the device or receives from it: not the scheduler, not another worker
C34_SocketExclusiveDuringTransfer ==
    [][\A w \in InFlight :
          /\ ~SchedulerExchanges
          /\ \A v \in Workers \ {w} : ~WorkerExchanges(v)]_vars

\* C35: while the status is synced no file is pending and no file is being
\* uploaded
C35_SyncedMeansNothingPending ==
    status = "synced" =>
        /\ syncing_files = {}
        /\ current_uploading_file = ""
        /\ InFlight = {}

\* uploadFile has ended, with a result or by raising
UploadEnded == upc \in {"done", "raised"}

\* C36: once uploadFile has ended, by returning a result (the last reply or
\* a verify failure) or by raising, the progress counters remaining and
\* filelength are both 0
C36_CountersClearedAtEnd ==
    UploadEnded => (remaining = 0 /\ filelength = 0)

\* C37: against a device that answers every chunk, with finitely many
\* resends, the transfer loop of uploadFile ends with remaining = 0 and the
\* size-verify command is sent, also when the file is truncated on disk
\* during the transfer
C37_TransferLoopTerminates ==
    (upc = "loop") ~> (upc = "verify" /\ remaining = 0)

\* C38: a command of the facade that returns normally, after the device has
\* sent the answer to its command (the line of the answer and the trailing
\* ok), has received every datagram of that answer and leaves none for the
\* next command.
C38_AnswerFullyConsumed ==
    (apc = "returned" /\ script \in DeviceAnswers(called)) => inbox = <<>>

====
